---- MODULE Spec2Model ----
(***************************************************************************)
(* Verification model of the audio streaming engine (audio-buffer-napi):   *)
(*   - RingBuffer (buffer/ring.rs): the SPSC sample queue, with every      *)
(*     atomic load, cell access and atomic store a separate step;          *)
(*   - MockBackend / PipeWireBackend (backend/mock.rs,                     *)
(*     pipewire_backend.rs): the per-stream lifecycle, one atomic action   *)
(*     per Backend call (the manager serialises them on one mutex);        *)
(*   - AudioManager (lib.rs): initialize / shutdown around a backend.      *)
(***************************************************************************)
EXTENDS Integers, Sequences, FiniteSets, TLC

VARIABLES
    usize,      \* number of values of the target's usize (2^width)
    limit,      \* samples the producer may offer in this behaviour
    rb,         \* the shared RingBuffer: capacity, mask, read_pos, write_pos
    buffer,     \* the RingBuffer's sample cells
    prod,       \* producer thread inside RingBuffer::write
    cons,       \* consumer thread inside RingBuffer::read / peek
    ctl,        \* control thread inside RingBuffer::clear
    offered,    \* number of samples handed to write so far
    accepted,   \* samples accepted by completed writes, in order
    returned,   \* samples returned by completed reads, in order
    backend,    \* the driver: kind, streams, next_handle, initialized
    manager,    \* the AudioManager's own fields
    last,       \* the last call made and what it returned
    calls,      \* number of calls made so far
    issued,     \* handle ids returned by create_stream so far, in order
    dropped,    \* handles destroyed, or dropped by shutdown, on this backend
    duck,       \* a ducking strategy, the streams handed to it, its VolumeMatrix
    engine,     \* a query plan on its way through the planner and the optimizer
    lex         \* a Lexer over a query text, and the Parser that owns it

ringVars == <<usize, limit, rb, buffer, prod, cons, ctl, offered, accepted, returned>>

audioVars == <<backend, manager, last, calls, issued, dropped>>

calcVars == <<duck, engine, lex>>

vars == <<usize, limit, rb, buffer, prod, cons, ctl, offered, accepted, returned,
          backend, manager, last, calls, issued, dropped, duck, engine, lex>>

(***************************************************************************)
(* Bounds of the model.                                                    *)
(***************************************************************************)
PosBits == 3          \* width of usize in the ring specifications
MaxMinCapacity == 4   \* RingBuffer::new(min_capacity), min_capacity in 1..MaxMinCapacity
MaxLen == 3           \* longest slice handed to one write / read / peek
MaxSamples == 10      \* samples offered to the ring by the SPSC pair alone
MaxRaceSamples == 3   \* samples offered to the ring when clear() runs as well
BackendPosBits == 16  \* width of usize in the backend specifications
MaxHandle == 2        \* handle ids a driver hands out and calls address
MaxCalls == 5         \* calls made on a driver or manager in one behaviour

Min(a, b) == IF a <= b THEN a ELSE b

RECURSIVE Pow2(_)
Pow2(n) == IF n = 0 THEN 1 ELSE 2 * Pow2(n - 1)

RECURSIVE NextPow2From(_, _)
NextPow2From(p, n) == IF p >= n THEN p ELSE NextPow2From(2 * p, n)

\* usize::next_power_of_two: the smallest power of two >= n (1 for n = 0).
next_power_of_two(n) == NextPow2From(1, n)

\* usize::wrapping_sub / wrapping_add at the target's width.
wrapping_sub(a, b) == (a - b + usize) % usize
wrapping_add(a, b) == (a + b) % usize

\* `pos & mask` for mask = capacity - 1, capacity a power of two.
BitAndMask(pos, mask) == pos % (mask + 1)

\* RingBuffer::new: the fields other than the sample cells.
RingBufferNew(min_capacity) ==
    LET capacity == next_power_of_two(min_capacity)
    IN  [capacity  |-> capacity,
         mask      |-> capacity - 1,
         read_pos  |-> 0,
         write_pos |-> 0]

\* RingBuffer::new: the sample cells, all 0.0.
BufferNew(capacity) == [i \in 0 .. capacity - 1 |-> 0]

\* Variant of WriteAvailable that ignores the reader: the whole capacity is
\* always free.
WriteAvailableIgnoringReader(capacity, read, write) == capacity

\* ring.rs:73  let available = self.capacity - (write.wrapping_sub(read));
\* (release arithmetic: the subtraction wraps at the width of usize)
WriteAvailable(capacity, read, write) ==
    wrapping_sub(capacity, wrapping_sub(write, read))

\* ring.rs:96  let available = write.wrapping_sub(read);
ReadAvailable(read, write) == wrapping_sub(write, read)

\* ring.rs:77 / ring.rs:100  let idx = (pos + i) & self.mask;
CellIndex(pos, i, mask) == BitAndMask(wrapping_add(pos, i), mask)

\* RingBuffer::available_read / available_write on the shared positions.
available_read(r) == wrapping_sub(r.write_pos, r.read_pos)
available_write(r) == wrapping_sub(r.capacity, wrapping_sub(r.write_pos, r.read_pos))

IdleThread == [pc |-> "idle"]

(***************************************************************************)
(* RingBuffer::write, one step per shared-memory access.                   *)
(***************************************************************************)
\* The k-th sample ever offered has the value k: every sample is unique.
SamplesFrom(first, len) == [k \in 1 .. len |-> first + k]

\* write() is entered; ring.rs:70 loads read_pos.
WriteLoadRead ==
    /\ prod.pc = "idle"
    /\ offered < limit
    /\ \E len \in 0 .. Min(MaxLen, limit - offered) :
          /\ prod' = [pc |-> "load_write",
                      samples |-> SamplesFrom(offered, len),
                      read |-> rb.read_pos, write |-> 0, to_write |-> 0, i |-> 0]
          /\ offered' = offered + len
    /\ UNCHANGED <<usize, limit, rb, buffer, cons, ctl, accepted, returned, audioVars, calcVars>>

\* ring.rs:71-74 loads write_pos and computes to_write.
WriteLoadWrite ==
    /\ prod.pc = "load_write"
    /\ LET write == rb.write_pos
           available == WriteAvailable(rb.capacity, prod.read, write)
       IN  prod' = [prod EXCEPT !.pc = "copy", !.write = write,
                                !.to_write = Min(Len(prod.samples), available)]
    /\ UNCHANGED <<usize, limit, rb, buffer, cons, ctl, offered, accepted, returned, audioVars, calcVars>>

\* ring.rs:76-82 stores one sample into its cell.
WriteCell ==
    /\ prod.pc = "copy"
    /\ prod.i < prod.to_write
    /\ buffer' = [buffer EXCEPT ![CellIndex(prod.write, prod.i, rb.mask)] =
                                    prod.samples[prod.i + 1]]
    /\ prod' = [prod EXCEPT !.i = prod.i + 1]
    /\ UNCHANGED <<usize, limit, rb, cons, ctl, offered, accepted, returned, audioVars, calcVars>>

\* ring.rs:84-85 publishes write_pos and returns to_write.
WriteStore ==
    /\ prod.pc = "copy"
    /\ prod.i >= prod.to_write
    /\ rb' = [rb EXCEPT !.write_pos = wrapping_add(prod.write, prod.to_write)]
    /\ accepted' = accepted \o SubSeq(prod.samples, 1, prod.to_write)
    /\ prod' = IdleThread
    /\ UNCHANGED <<usize, limit, buffer, cons, ctl, offered, returned, audioVars, calcVars>>

(***************************************************************************)
(* RingBuffer::read and RingBuffer::peek, one step per shared access.      *)
(***************************************************************************)
\* read() or peek() is entered; ring.rs:93 / ring.rs:115 loads read_pos.
ReadLoadRead(ops) ==
    /\ cons.pc = "idle"
    /\ Len(returned) <= limit
    /\ \E op \in ops, len \in 0 .. MaxLen :
          cons' = [pc |-> "load_write", op |-> op, len |-> len,
                   output |-> <<>>, read |-> rb.read_pos,
                   write |-> 0, to_read |-> 0, i |-> 0]
    /\ UNCHANGED <<usize, limit, rb, buffer, prod, ctl, offered, accepted, returned, audioVars, calcVars>>

\* ring.rs:94-97 / ring.rs:116-119 loads write_pos and computes to_read.
ReadLoadWrite ==
    /\ cons.pc = "load_write"
    /\ LET write == rb.write_pos
           available == ReadAvailable(cons.read, write)
       IN  cons' = [cons EXCEPT !.pc = "copy", !.write = write,
                                !.to_read = Min(cons.len, available)]
    /\ UNCHANGED <<usize, limit, rb, buffer, prod, ctl, offered, accepted, returned, audioVars, calcVars>>

\* ring.rs:99-105 / ring.rs:121-126 loads one sample from its cell.
ReadCell ==
    /\ cons.pc = "copy"
    /\ cons.i < cons.to_read
    /\ cons' = [cons EXCEPT
                   !.output = Append(cons.output,
                                     buffer[CellIndex(cons.read, cons.i, rb.mask)]),
                   !.i = cons.i + 1]
    /\ UNCHANGED <<usize, limit, rb, buffer, prod, ctl, offered, accepted, returned, audioVars, calcVars>>

\* ring.rs:107-108 publishes read_pos and returns to_read.
ReadStore ==
    /\ cons.pc = "copy"
    /\ cons.op = "read"
    /\ cons.i >= cons.to_read
    /\ rb' = [rb EXCEPT !.read_pos = wrapping_add(cons.read, cons.to_read)]
    /\ returned' = returned \o cons.output
    /\ cons' = IdleThread
    /\ UNCHANGED <<usize, limit, buffer, prod, ctl, offered, accepted, audioVars, calcVars>>

\* ring.rs:128 peek returns to_read and leaves read_pos alone.
PeekReturn ==
    /\ cons.pc = "copy"
    /\ cons.op = "peek"
    /\ cons.i >= cons.to_read
    /\ cons' = IdleThread
    /\ UNCHANGED <<usize, limit, rb, buffer, prod, ctl, offered, accepted, returned, audioVars, calcVars>>

(***************************************************************************)
(* RingBuffer::clear, called by the control thread: two separate stores.   *)
(***************************************************************************)
\* ring.rs:157 stores read_pos = 0.
ClearStoreRead ==
    /\ ctl.pc = "idle"
    /\ rb' = [rb EXCEPT !.read_pos = 0]
    /\ ctl' = [pc |-> "store_write"]
    /\ UNCHANGED <<usize, limit, buffer, prod, cons, offered, accepted, returned, audioVars, calcVars>>

\* ring.rs:158 stores write_pos = 0.
ClearStoreWrite ==
    /\ ctl.pc = "store_write"
    /\ rb' = [rb EXCEPT !.write_pos = 0]
    /\ ctl' = IdleThread
    /\ UNCHANGED <<usize, limit, buffer, prod, cons, offered, accepted, returned, audioVars, calcVars>>

(***************************************************************************)
(* RingBuffer calls made under the backend mutex: the same steps as above, *)
(* run to completion with no other thread in between.                      *)
(***************************************************************************)
\* RingBuffer::for_duration
for_duration(sample_rate, channels, duration_ms) ==
    LET samples == (sample_rate * channels * duration_ms) \div 1000
    IN  RingBufferNew(samples * 2)

\* RingBuffer::write of len samples: the ring after the call and the count
\* written.  The sample cells are left to the ring specifications: no Backend
\* call returns or branches on the value of a cell.
RingWrite(r, len) ==
    LET read == r.read_pos
        write == r.write_pos
        available == WriteAvailable(r.capacity, read, write)
        to_write == Min(len, available)
    IN  [ring |-> [r EXCEPT !.write_pos = wrapping_add(write, to_write)],
         count |-> to_write]

\* RingBuffer::read into a slice of len samples: the ring after the call and
\* the count read.
RingRead(r, len) ==
    LET read == r.read_pos
        write == r.write_pos
        available == ReadAvailable(read, write)
        to_read == Min(len, available)
    IN  [ring |-> [r EXCEPT !.read_pos = wrapping_add(read, to_read)],
         count |-> to_read]

\* RingBuffer::clear
RingClear(r) == [r EXCEPT !.read_pos = 0, !.write_pos = 0]

(***************************************************************************)
(* f32 values: a number of thousandths, or NaN.                            *)
(***************************************************************************)
F32(milli) == [nan |-> FALSE, milli |-> milli]
NaN == [nan |-> TRUE, milli |-> 0]

\* IEEE comparison: every comparison with NaN is false.
f32_lt(a, b) == ~a.nan /\ ~b.nan /\ a.milli < b.milli

\* f32::clamp: if self < min then min, if self > max then max, otherwise self.
f32_clamp(x, lo, hi) ==
    IF f32_lt(x, lo) THEN lo ELSE IF f32_lt(hi, x) THEN hi ELSE x

(***************************************************************************)
(* HealthMonitor (buffer/health.rs).                                       *)
(***************************************************************************)
\* HealthMonitor::new
HealthMonitorNew ==
    [fill_level |-> 0, underrun_count |-> 0, overrun_count |-> 0,
     latency_ms |-> 0, state |-> "Idle"]

\* set_fill_level(fill_percent()): (available_read / capacity).clamp(0, 1) * 1000
\* truncated to u32; the quotient by a power of two is exact in f32.
set_fill_level(health, r) ==
    [health EXCEPT !.fill_level = Min(1000, (available_read(r) * 1000) \div r.capacity)]

record_overrun(health) == [health EXCEPT !.overrun_count = @ + 1]
record_underrun(health) == [health EXCEPT !.underrun_count = @ + 1]
set_state(health, state) == [health EXCEPT !.state = state]

(***************************************************************************)
(* Backend results.                                                        *)
(***************************************************************************)
Ok(value) == [tag |-> "Ok", value |-> value, expected |-> "-", actual |-> "-"]
Err(tag) == [tag |-> tag, value |-> 0, expected |-> "-", actual |-> "-"]
InvalidState(expected, actual) ==
    [tag |-> "InvalidState", value |-> 0, expected |-> expected, actual |-> actual]

(***************************************************************************)
(* StreamConfig (backend/mod.rs).                                          *)
(***************************************************************************)
\* StreamConfig::prebuffer_samples
prebuffer_samples(config) ==
    ((config.sample_rate * config.prebuffer_ms) \div 1000) * config.channels

\* Variant of ConfigError that lets nine channels through.
ConfigErrorNineChannels(config) ==
    IF config.sample_rate < 8000 \/ config.sample_rate > 192000 THEN "InvalidConfig"
    ELSE IF config.channels = 0 \/ config.channels > 9 THEN "InvalidConfig"
    ELSE "none"

\* The validation both drivers run in create_stream.
ConfigError(config) ==
    IF config.sample_rate < 8000 \/ config.sample_rate > 192000 THEN "InvalidConfig"
    ELSE IF config.channels = 0 \/ config.channels > 8 THEN "InvalidConfig"
    ELSE "none"

\* Extra buffer the PipeWire driver adds in create_stream.
HeadroomMs == 100

\* MockStream::new
MockStreamNew(config) ==
    [config |-> config,
     buffer |-> for_duration(config.sample_rate, config.channels,
                             config.buffer_size_ms + config.prebuffer_ms),
     health |-> HealthMonitorNew,
     volume |-> F32(1000),
     state  |-> "Idle"]

\* The PwStreamWrapper built in PipeWireBackend::create_stream.
PwStreamNew(config) ==
    [config |-> config,
     buffer |-> for_duration(config.sample_rate, config.channels,
                             config.buffer_size_ms + config.prebuffer_ms + HeadroomMs),
     health |-> set_state(HealthMonitorNew, "Idle"),
     volume |-> F32(1000),
     state  |-> "Idle"]

StreamNew(kind, config) ==
    IF kind = "mock" THEN MockStreamNew(config) ELSE PwStreamNew(config)

(***************************************************************************)
(* The per-stream body of each Backend call: the stream after the call     *)
(* and the call's result.                                                  *)
(***************************************************************************)
Outcome(stream, result) == [stream |-> stream, result |-> result]

\* Variant of StartTarget with a strict comparison.
StartTargetStrict(stream) ==
    IF available_read(stream.buffer) > prebuffer_samples(stream.config)
    THEN "Running" ELSE "Prebuffering"

\* Backend::start (both drivers)
StartTarget(stream) ==
    IF available_read(stream.buffer) >= prebuffer_samples(stream.config)
    THEN "Running" ELSE "Prebuffering"

start(stream) ==
    IF stream.state \in {"Idle", "Paused"}
    THEN Outcome([stream EXCEPT !.state = StartTarget(stream),
                                !.health = set_state(@, StartTarget(stream))],
                 Ok(0))
    ELSE Outcome(stream, InvalidState("Idle", stream.state))

\* Variant of stop that leaves the buffer as it is.
StopKeepingBuffer(stream) ==
    Outcome([stream EXCEPT !.state = "Stopped",
                           !.health = set_state(@, "Stopped")],
            Ok(0))

\* Backend::stop (both drivers)
stop(stream) ==
    Outcome([stream EXCEPT !.state = "Stopped",
                           !.health = set_state(@, "Stopped"),
                           !.buffer = RingClear(@)],
            Ok(0))

\* Variant of pause without the state check.
PauseFromAnyState(stream) ==
    Outcome([stream EXCEPT !.state = "Paused",
                           !.health = set_state(@, "Paused")],
            Ok(0))

\* Backend::pause (both drivers)
pause(stream) ==
    IF stream.state = "Running"
    THEN Outcome([stream EXCEPT !.state = "Paused",
                                !.health = set_state(@, "Paused")],
                 Ok(0))
    ELSE Outcome(stream, InvalidState("Running", stream.state))

\* Backend::resume (both drivers)
resume(stream) ==
    IF stream.state = "Paused"
    THEN Outcome([stream EXCEPT !.state = "Running",
                                !.health = set_state(@, "Running")],
                 Ok(0))
    ELSE Outcome(stream, InvalidState("Paused", stream.state))

\* Variant of AfterWrite that records an overrun on every write.
AfterWriteAlwaysOverrun(stream, w, len) ==
    [stream EXCEPT !.buffer = w.ring,
                   !.health = record_overrun(set_fill_level(stream.health, w.ring))]

\* The telemetry both drivers update after buffer.write.
AfterWrite(stream, w, len) ==
    LET filled == set_fill_level(stream.health, w.ring)
    IN  [stream EXCEPT !.buffer = w.ring,
                       !.health = IF w.count < len THEN record_overrun(filled)
                                  ELSE filled]

\* MockBackend::write
MockWrite(stream, len) ==
    IF stream.config.direction # "Playback" THEN Outcome(stream, Err("InvalidConfig"))
    ELSE LET w == RingWrite(stream.buffer, len)
         IN  Outcome(AfterWrite(stream, w, len), Ok(w.count))

\* PipeWireBackend::write: as the mock, then the prebuffer check on the
\* health monitor's state.
PwWrite(stream, len) ==
    IF stream.config.direction # "Playback" THEN Outcome(stream, Err("InvalidConfig"))
    ELSE LET w == RingWrite(stream.buffer, len)
             s1 == AfterWrite(stream, w, len)
             reached == /\ s1.health.state = "Prebuffering"
                        /\ available_read(s1.buffer) >= prebuffer_samples(s1.config)
         IN  Outcome(IF reached THEN [s1 EXCEPT !.health = set_state(@, "Running")]
                     ELSE s1,
                     Ok(w.count))

\* Backend::read (both drivers)
read(stream, len) ==
    IF stream.config.direction # "Recording" THEN Outcome(stream, Err("InvalidConfig"))
    ELSE LET r == RingRead(stream.buffer, len)
             filled == set_fill_level(stream.health, r.ring)
         IN  Outcome([stream EXCEPT !.buffer = r.ring,
                                    !.health = IF r.count < len
                                               THEN record_underrun(filled)
                                               ELSE filled],
                     Ok(r.count))

\* Backend::set_volume (both drivers)
set_volume(stream, volume) ==
    Outcome([stream EXCEPT !.volume = f32_clamp(volume, F32(0), F32(1000))], Ok(0))

\* Backend::get_volume, get_state, get_health (both drivers)
get_volume(stream) == Outcome(stream, Ok(stream.volume))
get_state(stream) == Outcome(stream, Ok(stream.state))
get_health(stream) == Outcome(stream, Ok(stream.health))

\* MockBackend::drain: an empty buffer is left alone, any other is cleared.
MockDrain(stream) ==
    IF available_read(stream.buffer) = 0 THEN Outcome(stream, Ok(0))
    ELSE Outcome([stream EXCEPT !.buffer = RingClear(@)], Ok(0))

\* PipeWireBackend::drain: holds the backend mutex while it polls, and nothing
\* in the driver consumes the buffer, so a non-empty buffer ends in the timeout.
PwDrain(stream) ==
    IF available_read(stream.buffer) > 0 THEN Outcome(stream, Err("Internal"))
    ELSE Outcome([stream EXCEPT !.health = set_state(@, "Draining")], Ok(0))

(***************************************************************************)
(* The drivers (MockBackend, PipeWireBackend) and the calls made on them.  *)
(***************************************************************************)
\* MockBackend::new / PipeWireBackend::new
BackendNew(kind) ==
    [kind |-> kind, streams |-> <<>>, next_handle |-> 1, initialized |-> FALSE]

Handles == 1 .. MaxHandle

Cfg(sample_rate, channels, prebuffer_ms, direction) ==
    [sample_rate |-> sample_rate, channels |-> channels, buffer_size_ms |-> 0,
     prebuffer_ms |-> prebuffer_ms, direction |-> direction]

\* The configurations handed to create_stream: three valid ones, and one
\* beyond each limit of the validation.
Configs ==
    {Cfg(8000, 1, 1, "Playback"), Cfg(8000, 1, 0, "Playback"),
     Cfg(8000, 1, 1, "Recording"),
     Cfg(7999, 1, 1, "Playback"), Cfg(192001, 1, 1, "Playback"),
     Cfg(8000, 0, 1, "Playback"), Cfg(8000, 9, 1, "Playback")}

\* Slice lengths handed to write: nothing, one prebuffer, the whole buffer.
WriteLens(stream) == {0, prebuffer_samples(stream.config), stream.buffer.capacity}

ReadLens == {0, 1}

VolumeInputs == {F32(-500), F32(500), F32(1500), NaN}

Called(op, handle, arg, result) ==
    [op |-> op, handle |-> handle, arg |-> arg, result |-> result]

\* The stream a live handle names.
Stream(h) == backend.streams[h]

\* get_stream / get_stream_mut, then the outcome out of the call's body on
\* Stream(h); out is looked at only when h names a stream.
OnStream(op, h, arg, out) ==
    /\ calls < MaxCalls
    /\ calls' = calls + 1
    /\ IF h \in DOMAIN backend.streams
       THEN /\ backend' = [backend EXCEPT !.streams[h] = out.stream]
            /\ last' = Called(op, h, arg, out.result)
       ELSE /\ backend' = backend
            /\ last' = Called(op, h, arg, Err("StreamNotFound"))
    /\ UNCHANGED <<ringVars, calcVars, manager, issued, dropped>>

\* Backend::initialize (the PipeWire driver returns early when initialized)
Initialized(b) == [b EXCEPT !.initialized = TRUE]

\* Variant of ShutDown that keeps the streams.
ShutDownKeepingStreams(b) == [b EXCEPT !.initialized = FALSE]

\* Backend::shutdown: every stream is dropped.
ShutDown(b) == [b EXCEPT !.streams = <<>>, !.initialized = FALSE]

\* Backend::create_stream: the backend after the call and the call's result.
create_stream(b, config) ==
    IF ~b.initialized THEN [backend |-> b, result |-> Err("NotAvailable")]
    ELSE IF ConfigError(config) # "none"
    THEN [backend |-> b, result |-> Err(ConfigError(config))]
    ELSE [backend |-> [b EXCEPT
                          !.next_handle = @ + 1,
                          !.streams = [h \in DOMAIN b.streams \cup {b.next_handle} |->
                                          IF h = b.next_handle
                                          THEN StreamNew(b.kind, config)
                                          ELSE b.streams[h]]],
          result |-> Ok(b.next_handle)]

\* Backend::destroy_stream
destroy_stream(b, h) ==
    IF h \in DOMAIN b.streams
    THEN [backend |-> [b EXCEPT !.streams = [g \in DOMAIN b.streams \ {h} |->
                                                b.streams[g]]],
          result |-> Ok(0)]
    ELSE [backend |-> b, result |-> Err("StreamNotFound")]

BackendInitialize ==
    /\ calls < MaxCalls
    /\ calls' = calls + 1
    /\ backend' = Initialized(backend)
    /\ last' = Called("initialize", 0, 0, Ok(0))
    /\ UNCHANGED <<ringVars, calcVars, manager, issued, dropped>>

BackendShutdown ==
    /\ calls < MaxCalls
    /\ calls' = calls + 1
    /\ backend' = ShutDown(backend)
    /\ dropped' = dropped \cup DOMAIN backend.streams
    /\ last' = Called("shutdown", 0, 0, Ok(0))
    /\ UNCHANGED <<ringVars, calcVars, manager, issued>>

CreateStream ==
    /\ calls < MaxCalls
    /\ backend.next_handle <= MaxHandle
    /\ calls' = calls + 1
    /\ \E config \in Configs :
          LET out == create_stream(backend, config)
          IN  /\ backend' = out.backend
              /\ last' = Called("create_stream", 0, config, out.result)
              /\ issued' = IF out.result.tag = "Ok"
                           THEN Append(issued, out.result.value) ELSE issued
    /\ UNCHANGED <<ringVars, calcVars, manager, dropped>>

DestroyStream ==
    /\ calls < MaxCalls
    /\ calls' = calls + 1
    /\ \E h \in Handles :
          LET out == destroy_stream(backend, h)
          IN  /\ backend' = out.backend
              /\ last' = Called("destroy_stream", h, 0, out.result)
              /\ dropped' = IF out.result.tag = "Ok" THEN dropped \cup {h} ELSE dropped
    /\ UNCHANGED <<ringVars, calcVars, manager, issued>>

GetState == \E h \in Handles : OnStream("get_state", h, 0, get_state(Stream(h)))

Start == \E h \in Handles : OnStream("start", h, 0, start(Stream(h)))

Stop == \E h \in Handles : OnStream("stop", h, 0, stop(Stream(h)))

Pause == \E h \in Handles : OnStream("pause", h, 0, pause(Stream(h)))

Resume == \E h \in Handles : OnStream("resume", h, 0, resume(Stream(h)))

\* write(handle, samples) with a slice of len samples.
WriteBody(len, stream) ==
    IF backend.kind = "mock" THEN MockWrite(stream, len) ELSE PwWrite(stream, len)

Write ==
    \E h \in Handles :
       \E len \in IF h \in DOMAIN backend.streams
                  THEN WriteLens(backend.streams[h]) ELSE {0} :
          OnStream("write", h, len, WriteBody(len, Stream(h)))

Read ==
    \E h \in Handles, len \in ReadLens :
       OnStream("read", h, len, read(Stream(h), len))

SetVolume ==
    \E h \in Handles, volume \in VolumeInputs :
       OnStream("set_volume", h, volume, set_volume(Stream(h), volume))

GetVolume == \E h \in Handles : OnStream("get_volume", h, 0, get_volume(Stream(h)))

GetHealth == \E h \in Handles : OnStream("get_health", h, 0, get_health(Stream(h)))

DrainBody(stream) ==
    IF backend.kind = "mock" THEN MockDrain(stream) ELSE PwDrain(stream)

Drain == \E h \in Handles : OnStream("drain", h, 0, DrainBody(Stream(h)))

(***************************************************************************)
(* AudioManager (lib.rs): the facade that owns the backend.                *)
(***************************************************************************)
BackendNames == {"mock", "pipewire", "auto", "alsa"}

\* The driver AudioManager::initialize builds for a backend name (on Linux).
BackendFor(name) == IF name = "mock" THEN "mock" ELSE "pipewire"

\* AudioManager::initialize: a new driver is built, initialized and installed.
InstalledBackend(name) == Initialized(BackendNew(BackendFor(name)))

ManagerInitialize ==
    /\ calls < MaxCalls
    /\ calls' = calls + 1
    /\ \E name \in BackendNames :
          IF name \in {"mock", "pipewire", "auto"}
          THEN /\ backend' = InstalledBackend(name)
               /\ manager' = [initialized |-> TRUE]
               /\ last' = Called("initialize", 0, name, Ok(0))
          ELSE /\ UNCHANGED <<backend, manager>>
               /\ last' = Called("initialize", 0, name, Err("InvalidArg"))
    /\ UNCHANGED <<ringVars, calcVars, issued, dropped>>

\* AudioManager::shutdown
ManagerShutdown ==
    /\ calls < MaxCalls
    /\ calls' = calls + 1
    /\ IF manager.initialized
       THEN /\ backend' = ShutDown(backend)
            /\ manager' = [initialized |-> FALSE]
       ELSE UNCHANGED <<backend, manager>>
    /\ last' = Called("shutdown", 0, 0, Ok(0))
    /\ UNCHANGED <<ringVars, calcVars, issued, dropped>>

(***************************************************************************)
(* Initial states and specifications.                                      *)
(***************************************************************************)
NoCall == Called("none", 0, 0, Ok(0))

\* The ducking and query-engine variables while neither is exercised.
CalcIdle ==
    /\ duck = [pc |-> "idle"]
    /\ engine = [pc |-> "idle"]
    /\ lex = [pc |-> "idle"]

\* The audio variables while only the ring is exercised.
AudioIdle ==
    /\ backend = BackendNew("mock")
    /\ manager = [initialized |-> FALSE]
    /\ last = NoCall
    /\ calls = 0
    /\ issued = <<>>
    /\ dropped = {}

\* The ring variables while only the backend is exercised.
RingIdle ==
    /\ usize = Pow2(BackendPosBits)
    /\ limit = 0
    /\ rb = RingBufferNew(1)
    /\ buffer = BufferNew(1)
    /\ prod = IdleThread
    /\ cons = IdleThread
    /\ ctl = IdleThread
    /\ offered = 0
    /\ accepted = <<>>
    /\ returned = <<>>

\* One driver, as constructed, and the Backend calls made on it.
BackendInit ==
    /\ RingIdle
    /\ CalcIdle
    /\ \E kind \in {"mock", "pipewire"} : backend = BackendNew(kind)
    /\ manager = [initialized |-> FALSE]
    /\ last = NoCall
    /\ calls = 0
    /\ issued = <<>>
    /\ dropped = {}

BackendNext ==
    \/ BackendInitialize
    \/ BackendShutdown
    \/ CreateStream
    \/ DestroyStream
    \/ GetState
    \/ Start
    \/ Stop
    \/ Pause
    \/ Resume
    \/ Write
    \/ Read
    \/ SetVolume
    \/ GetVolume
    \/ GetHealth
    \/ Drain

SpecBackend == BackendInit /\ [][BackendNext]_vars

\* AudioManager::new holds an uninitialized MockBackend.
ManagerInit ==
    /\ RingIdle
    /\ CalcIdle
    /\ AudioIdle

ManagerNext ==
    \/ ManagerInitialize
    \/ ManagerShutdown
    \/ CreateStream
    \/ DestroyStream

SpecManager == ManagerInit /\ [][ManagerNext]_vars

RingInit(samples) ==
    /\ usize = Pow2(PosBits)
    /\ limit = samples
    /\ \E min_capacity \in 1 .. MaxMinCapacity : rb = RingBufferNew(min_capacity)
    /\ buffer = BufferNew(rb.capacity)
    /\ prod = IdleThread
    /\ cons = IdleThread
    /\ ctl = IdleThread
    /\ offered = 0
    /\ accepted = <<>>
    /\ returned = <<>>
    /\ AudioIdle
    /\ CalcIdle

\* One producer calling write and one consumer calling read.
SpscNext ==
    \/ WriteLoadRead
    \/ WriteLoadWrite
    \/ WriteCell
    \/ WriteStore
    \/ ReadLoadRead({"read"})
    \/ ReadLoadWrite
    \/ ReadCell
    \/ ReadStore

SpscInit == RingInit(MaxSamples)

SpecSpsc == SpscInit /\ [][SpscNext]_vars

\* The same with peek on the consumer and clear() on the control thread.
RingNext ==
    \/ WriteLoadRead
    \/ WriteLoadWrite
    \/ WriteCell
    \/ WriteStore
    \/ ReadLoadRead({"read", "peek"})
    \/ ReadLoadWrite
    \/ ReadCell
    \/ ReadStore
    \/ PeekReturn
    \/ ClearStoreRead
    \/ ClearStoreWrite

RaceInit == RingInit(MaxRaceSamples)

SpecRing == RaceInit /\ [][RingNext]_vars

(***************************************************************************)
(* Ducking strategies (ducking/mod.rs).  Volumes are f32 values in         *)
(* thousandths; a StreamInfo is its priority, and the stream at index i of *)
(* the list has handle i, as the callers build the list.                   *)
(***************************************************************************)
MaxStreams == 3

\* Priorities (u8) handed to a strategy.
Priorities == {0, 50, 100, 255}

\* Values handed to ProportionalDucker::new.
MinVolumes == {F32(-500), F32(100), F32(500), F32(1000), F32(1500)}

StreamLists == UNION {[1 .. n -> Priorities] : n \in 0 .. MaxStreams}

RECURSIVE SetMax(_)
SetMax(S) ==
    LET x == CHOOSE y \in S : TRUE
    IN  IF S = {x} THEN x
        ELSE LET m == SetMax(S \ {x}) IN IF x > m THEN x ELSE m

RECURSIVE SetMin(_)
SetMin(S) ==
    LET x == CHOOSE y \in S : TRUE
    IN  IF S = {x} THEN x
        ELSE LET m == SetMin(S \ {x}) IN IF x < m THEN x ELSE m

PrioritiesOf(streams) == {streams[i] : i \in DOMAIN streams}

\* ProportionalDucker::new
ProportionalDuckerNew(min_volume) ==
    [strategy |-> "proportional",
     min_volume |-> f32_clamp(min_volume, F32(0), F32(1000))]

\* let range = (max_priority - min_priority).max(1.0);
PriorityRange(streams) ==
    LET range == SetMax(PrioritiesOf(streams)) - SetMin(PrioritiesOf(streams))
    IN  IF range < 1 THEN 1 ELSE range

\* The volume ProportionalDucker::calculate_volumes gives one stream.
ProportionalVolume(min_volume, streams, priority) ==
    F32(min_volume.milli
        + ((priority - SetMin(PrioritiesOf(streams))) * (1000 - min_volume.milli))
             \div PriorityRange(streams))

\* ProportionalDucker::calculate_volumes: the VolumeMatrix, by handle.
ProportionalVolumes(ducker, streams) ==
    IF streams = <<>> THEN <<>>
    ELSE [h \in DOMAIN streams |->
             ProportionalVolume(ducker.min_volume, streams, streams[h])]

DuckerCalculate ==
    /\ duck.pc = "ready"
    /\ duck' = [duck EXCEPT !.pc = "done",
                            !.volumes = ProportionalVolumes(duck.ducker, duck.streams)]
    /\ UNCHANGED <<ringVars, audioVars, engine, lex>>

DuckInit ==
    /\ RingIdle
    /\ AudioIdle
    /\ engine = [pc |-> "idle"]
    /\ lex = [pc |-> "idle"]
    /\ \E min_volume \in MinVolumes, streams \in StreamLists :
          duck = [pc |-> "ready", ducker |-> ProportionalDuckerNew(min_volume),
                  streams |-> streams, volumes |-> <<>>]

DuckNext == DuckerCalculate

SpecDuck == DuckInit /\ [][DuckNext]_vars

(***************************************************************************)
(* SimpleDucker and FadeDucker.  A stream list is the priorities by handle *)
(* as above, with the current_volume of each stream beside it; the result  *)
(* of f32 arithmetic is kept in thousandths, which is exact whenever one   *)
(* factor of a product is 0.0 or 1.0.                                      *)
(***************************************************************************)
\* f32 +, -, *: NaN when an operand is NaN.
f32_add(a, b) == IF a.nan \/ b.nan THEN NaN ELSE F32(a.milli + b.milli)
f32_sub(a, b) == IF a.nan \/ b.nan THEN NaN ELSE F32(a.milli - b.milli)
f32_mul(a, b) == IF a.nan \/ b.nan THEN NaN ELSE F32((a.milli * b.milli) \div 1000)

\* f32::max: the other operand when one is NaN.
f32_max(a, b) == IF a.nan THEN b ELSE IF b.nan THEN a ELSE IF f32_lt(a, b) THEN b ELSE a

\* SimpleDucker::new
SimpleDuckerNew(duck_level) ==
    [strategy |-> "simple", duck_level |-> f32_clamp(duck_level, F32(0), F32(1000))]

\* SimpleDucker::calculate_volumes: the VolumeMatrix, by handle.
SimpleVolumes(ducker, streams) ==
    IF streams = <<>> THEN <<>>
    ELSE [h \in DOMAIN streams |->
             IF streams[h] = SetMax(PrioritiesOf(streams)) THEN F32(1000)
             ELSE ducker.duck_level]

\* FadeDucker::new: fade_progress is an empty map.
FadeDuckerNew(duck_level, fade_duration_ms) ==
    [strategy |-> "fade",
     duck_level |-> f32_clamp(duck_level, F32(0), F32(1000)),
     fade_duration_ms |-> fade_duration_ms,
     fade_progress |-> <<>>]

\* let step = elapsed_ms as f32 / self.fade_duration_ms as f32: infinite or
\* NaN for a duration of 0, and then (progress - step).max(0.0) is 0.0.
FadeStep(self, elapsed_ms) ==
    IF self.fade_duration_ms = 0 THEN NaN
    ELSE F32((elapsed_ms * 1000) \div self.fade_duration_ms)

\* FadeDucker::update
update(self, elapsed_ms) ==
    [self EXCEPT !.fade_progress =
        [h \in DOMAIN @ |-> f32_max(f32_sub(@[h], FadeStep(self, elapsed_ms)), F32(0))]]

\* self.fade_progress.get(&stream.handle).copied().unwrap_or(0.0)
ProgressOf(self, h) ==
    IF h \in DOMAIN self.fade_progress THEN self.fade_progress[h] ELSE F32(0)

\* FadeDucker::calculate_volumes: the VolumeMatrix, by handle.
FadeVolumes(self, streams, currents) ==
    IF streams = <<>> THEN <<>>
    ELSE [h \in DOMAIN streams |->
             LET Volume(target, progress) ==
                     f32_add(f32_mul(currents[h], progress),
                             f32_mul(target, f32_sub(F32(1000), progress)))
             IN  Volume(IF streams[h] = SetMax(PrioritiesOf(streams)) THEN F32(1000)
                        ELSE self.duck_level,
                        ProgressOf(self, h))]

(***************************************************************************)
(* The two strategies as a state machine: a FadeDucker and a SimpleDucker  *)
(* are made with the same duck level, update is called on the FadeDucker   *)
(* some times, and calculate_volumes is called on both with one list.      *)
(***************************************************************************)
MaxUpdates == 2

\* Values handed to SimpleDucker::new and FadeDucker::new, and to update.
DuckLevels == {F32(-500), F32(300), F32(1500)}
FadeDurations == {0, 200}
ElapsedMs == {0, 100, 300}

\* Values of StreamInfo::current_volume.
CurrentVolumes == {F32(0), F32(700), NaN}

FadeUpdate ==
    /\ duck.pc = "ready"
    /\ duck.updates < MaxUpdates
    /\ \E elapsed_ms \in ElapsedMs :
          duck' = [duck EXCEPT !.fade = update(@, elapsed_ms), !.updates = @ + 1]
    /\ UNCHANGED <<ringVars, audioVars, engine, lex>>

FadeCalculate ==
    /\ duck.pc = "ready"
    /\ duck' = [duck EXCEPT !.pc = "done",
                            !.volumes = FadeVolumes(duck.fade, duck.streams, duck.currents),
                            !.simple_volumes = SimpleVolumes(duck.simple, duck.streams)]
    /\ UNCHANGED <<ringVars, audioVars, engine, lex>>

FadeInit ==
    /\ RingIdle
    /\ AudioIdle
    /\ engine = [pc |-> "idle"]
    /\ lex = [pc |-> "idle"]
    /\ \E duck_level \in DuckLevels, fade_duration_ms \in FadeDurations,
          streams \in StreamLists :
          \E currents \in [DOMAIN streams -> CurrentVolumes] :
             duck = [pc |-> "ready",
                     fade |-> FadeDuckerNew(duck_level, fade_duration_ms),
                     simple |-> SimpleDuckerNew(duck_level),
                     streams |-> streams, currents |-> currents, updates |-> 0,
                     volumes |-> <<>>, simple_volumes |-> <<>>]

FadeNext == FadeUpdate \/ FadeCalculate

SpecFade == FadeInit /\ [][FadeNext]_vars

(***************************************************************************)
(* Query-engine expressions (ast.rs).  Option<T> is a sequence of at most  *)
(* one element, a String literal the sequence of its characters, and an    *)
(* Integer literal an i64 scaled down to IntBits bits.  Float literals and *)
(* the Case, Map, comprehension, Exists and Count expressions, which every *)
(* rewrite returns as it finds them, are outside the expressions modelled. *)
(***************************************************************************)
IntBits == 8

None == <<>>
Some(x) == <<x>>

\* Literal
LitNull == [kind |-> "Null"]
LitBool(b) == [kind |-> "Boolean", b |-> b]
LitInt(n) == [kind |-> "Integer", n |-> n]
LitStr(s) == [kind |-> "String", s |-> s]

\* Expr
Literal(l) == [type |-> "Literal", lit |-> l]
Variable(name) == [type |-> "Variable", name |-> name]
Parameter(name) == [type |-> "Parameter", name |-> name]
Property(expr, name) == [type |-> "Property", expr |-> expr, name |-> name]
Index(expr, index) == [type |-> "Index", expr |-> expr, index |-> index]
Binary(left, op, right) == [type |-> "Binary", left |-> left, op |-> op, right |-> right]
Unary(op, expr) == [type |-> "Unary", op |-> op, expr |-> expr]
FunctionCall(name, args) == [type |-> "FunctionCall", name |-> name, args |-> args]
List(items) == [type |-> "List", items |-> items]

True == Literal(LitBool(TRUE))
False == Literal(LitBool(FALSE))
IntLit(n) == Literal(LitInt(n))

IsLit(e, l) == e.type = "Literal" /\ e.lit = l
IsBool(e) == e.type = "Literal" /\ e.lit.kind = "Boolean"
IsInt(e) == e.type = "Literal" /\ e.lit.kind = "Integer"

\* i64 arithmetic at IntBits bits: two's-complement wrapping; / truncates
\* towards zero and % takes the sign of the dividend.
Wrap(n) == ((n + Pow2(IntBits - 1)) % Pow2(IntBits)) - Pow2(IntBits - 1)
Abs(n) == IF n < 0 THEN -n ELSE n
TruncDiv(a, b) ==
    IF (a < 0) = (b < 0) THEN Abs(a) \div Abs(b) ELSE -(Abs(a) \div Abs(b))
Rem(a, b) == a - b * TruncDiv(a, b)

\* str::starts_with, ends_with, contains
StrStartsWith(a, b) == Len(b) <= Len(a) /\ SubSeq(a, 1, Len(b)) = b
StrEndsWith(a, b) == Len(b) <= Len(a) /\ SubSeq(a, Len(a) - Len(b) + 1, Len(a)) = b
StrContains(a, b) ==
    \E i \in 0 .. Len(a) : i + Len(b) <= Len(a) /\ SubSeq(a, i + 1, i + Len(b)) = b

\* QueryOptimizer::eval_binary: Some(literal), or None when nothing applies.
eval_binary(l, op, r) ==
    IF l.kind = "Integer" /\ r.kind = "Integer" THEN
       CASE op = "Add" -> Some(LitInt(Wrap(l.n + r.n)))
         [] op = "Sub" -> Some(LitInt(Wrap(l.n - r.n)))
         [] op = "Mul" -> Some(LitInt(Wrap(l.n * r.n)))
         [] op = "Div" /\ r.n # 0 -> Some(LitInt(Wrap(TruncDiv(l.n, r.n))))
         [] op = "Mod" /\ r.n # 0 -> Some(LitInt(Wrap(Rem(l.n, r.n))))
         [] op = "Eq" -> Some(LitBool(l.n = r.n))
         [] op = "Ne" -> Some(LitBool(l.n # r.n))
         [] op = "Lt" -> Some(LitBool(l.n < r.n))
         [] op = "Le" -> Some(LitBool(l.n <= r.n))
         [] op = "Gt" -> Some(LitBool(l.n > r.n))
         [] op = "Ge" -> Some(LitBool(l.n >= r.n))
         [] OTHER -> None
    ELSE IF l.kind = "String" /\ r.kind = "String" THEN
       CASE op = "Eq" -> Some(LitBool(l.s = r.s))
         [] op = "Ne" -> Some(LitBool(l.s # r.s))
         [] op = "Contains" -> Some(LitBool(StrContains(l.s, r.s)))
         [] op = "StartsWith" -> Some(LitBool(StrStartsWith(l.s, r.s)))
         [] op = "EndsWith" -> Some(LitBool(StrEndsWith(l.s, r.s)))
         [] OTHER -> None
    ELSE IF l.kind = "Boolean" /\ r.kind = "Boolean" THEN
       CASE op = "And" -> Some(LitBool(l.b /\ r.b))
         [] op = "Or" -> Some(LitBool(l.b \/ r.b))
         [] op = "Xor" -> Some(LitBool(l.b # r.b))
         [] OTHER -> None
    ELSE None

\* The algebraic simplifications of fold_expr on a Binary whose sides are
\* folded, in the order of the match arms.
SimplifyBinary(left, op, right) ==
    CASE op = "And" /\ IsLit(right, LitBool(TRUE)) -> left
      [] op = "And" /\ IsLit(left, LitBool(TRUE)) -> right
      [] op = "And" /\ (IsLit(right, LitBool(FALSE)) \/ IsLit(left, LitBool(FALSE))) -> False
      [] op = "Or" /\ (IsLit(right, LitBool(TRUE)) \/ IsLit(left, LitBool(TRUE))) -> True
      [] op = "Or" /\ IsLit(right, LitBool(FALSE)) -> left
      [] op = "Or" /\ IsLit(left, LitBool(FALSE)) -> right
      [] op \in {"Add", "Sub"} /\ IsLit(right, LitInt(0)) -> left
      [] op \in {"Mul", "Div"} /\ IsLit(right, LitInt(1)) -> left
      [] op = "Mul" /\ (IsLit(right, LitInt(0)) \/ IsLit(left, LitInt(0))) -> IntLit(0)
      [] OTHER -> Binary(left, op, right)

\* The Unary arm of fold_expr on a folded operand.
SimplifyUnary(op, expr) ==
    CASE op = "Not" /\ IsBool(expr) -> Literal(LitBool(~expr.lit.b))
      [] op = "Neg" /\ IsInt(expr) -> IntLit(Wrap(-expr.lit.n))
      [] op = "Not" /\ expr.type = "Unary" /\ expr.op = "Not" -> expr.expr
      [] op = "Neg" /\ expr.type = "Unary" /\ expr.op = "Neg" -> expr.expr
      [] OTHER -> Unary(op, expr)

\* QueryOptimizer::fold_expr
RECURSIVE fold_expr(_)
fold_expr(expr) ==
    CASE expr.type = "Binary" ->
            LET left == fold_expr(expr.left)
                right == fold_expr(expr.right)
                value == IF left.type = "Literal" /\ right.type = "Literal"
                         THEN eval_binary(left.lit, expr.op, right.lit) ELSE None
            IN  IF value # None THEN Literal(value[1])
                ELSE SimplifyBinary(left, expr.op, right)
      [] expr.type = "Unary" -> SimplifyUnary(expr.op, fold_expr(expr.expr))
      [] expr.type = "FunctionCall" ->
            FunctionCall(expr.name, [i \in DOMAIN expr.args |-> fold_expr(expr.args[i])])
      [] expr.type = "List" ->
            List([i \in DOMAIN expr.items |-> fold_expr(expr.items[i])])
      [] expr.type = "Property" -> Property(fold_expr(expr.expr), expr.name)
      [] expr.type = "Index" -> Index(fold_expr(expr.expr), fold_expr(expr.index))
      [] OTHER -> expr

\* The limits of i64 at IntBits bits.
I64Min == -Pow2(IntBits - 1)
I64Max == Pow2(IntBits - 1) - 1

\* The operators +, -, * on i64 overflow when the exact result is not an
\* i64: a build with overflow checks (the dev profile) then panics and a
\* build without them (the release profile) wraps, which is the value of
\* eval_binary above.  / and % panic in every build when they overflow
\* (i64::MIN by -1).  Whether eval_binary panics on two literals:
EvalPanics(overflow_checks, l, op, r) ==
    /\ l.kind = "Integer" /\ r.kind = "Integer"
    /\ \/ op \in {"Div", "Mod"} /\ l.n = I64Min /\ r.n = -1
       \/ /\ overflow_checks
          /\ \/ op = "Add" /\ Wrap(l.n + r.n) # l.n + r.n
             \/ op = "Sub" /\ Wrap(l.n - r.n) # l.n - r.n
             \/ op = "Mul" /\ Wrap(l.n * r.n) # l.n * r.n

\* Whether `-n` in the Unary arm of fold_expr panics on a folded operand.
NegPanics(overflow_checks, op, expr) ==
    overflow_checks /\ op = "Neg" /\ IsInt(expr) /\ expr.lit.n = I64Min

\* Whether fold_expr panics on an expression, in the order it evaluates.
RECURSIVE FoldPanics(_, _)
FoldPanics(overflow_checks, expr) ==
    CASE expr.type = "Binary" ->
            \/ FoldPanics(overflow_checks, expr.left)
            \/ FoldPanics(overflow_checks, expr.right)
            \/ /\ fold_expr(expr.left).type = "Literal"
               /\ fold_expr(expr.right).type = "Literal"
               /\ EvalPanics(overflow_checks, fold_expr(expr.left).lit, expr.op,
                             fold_expr(expr.right).lit)
      [] expr.type = "Unary" ->
            \/ FoldPanics(overflow_checks, expr.expr)
            \/ NegPanics(overflow_checks, expr.op, fold_expr(expr.expr))
      [] expr.type = "FunctionCall" ->
            \E i \in DOMAIN expr.args : FoldPanics(overflow_checks, expr.args[i])
      [] expr.type = "List" ->
            \E i \in DOMAIN expr.items : FoldPanics(overflow_checks, expr.items[i])
      [] expr.type = "Property" -> FoldPanics(overflow_checks, expr.expr)
      [] expr.type = "Index" ->
            FoldPanics(overflow_checks, expr.expr) \/ FoldPanics(overflow_checks, expr.index)
      [] OTHER -> FALSE

\* A call of fold_expr in a build: the folded expression, or the panic.
Panicked == [tag |-> "Panic"]
Folded(expr) == [tag |-> "Folded", expr |-> expr]
FoldIn(overflow_checks, expr) ==
    IF FoldPanics(overflow_checks, expr) THEN Panicked ELSE Folded(fold_expr(expr))

(***************************************************************************)
(* Execution plans (planner.rs) and the optimizer's rewrites of them       *)
(* (optimizer.rs).  A PlanNode is a record tagged by its variant; a Vec is *)
(* a sequence and a tuple of a Vec a two-element sequence.                 *)
(***************************************************************************)
NodeScan(variable, label) == [type |-> "NodeScan", variable |-> variable, label |-> label]
EdgeScan(variable, rel_type) == [type |-> "EdgeScan", variable |-> variable, rel_type |-> rel_type]
IndexSeek(variable, label, property, value) ==
    [type |-> "IndexSeek", variable |-> variable, label |-> label,
     property |-> property, value |-> value]
Expand(input, from_variable, edge_variable, to_variable, rel_types, direction, min_hops, max_hops) ==
    [type |-> "Expand", input |-> input, from_variable |-> from_variable,
     edge_variable |-> edge_variable, to_variable |-> to_variable,
     rel_types |-> rel_types, direction |-> direction,
     min_hops |-> min_hops, max_hops |-> max_hops]
Filter(input, predicate) == [type |-> "Filter", input |-> input, predicate |-> predicate]
Project(input, items) == [type |-> "Project", input |-> input, items |-> items]
Sort(input, items) == [type |-> "Sort", input |-> input, items |-> items]
Limit(input, count) == [type |-> "Limit", input |-> input, count |-> count]
Skip(input, count) == [type |-> "Skip", input |-> input, count |-> count]
Distinct(input, columns) == [type |-> "Distinct", input |-> input, columns |-> columns]
HashJoin(left, right, on) == [type |-> "HashJoin", left |-> left, right |-> right, on |-> on]
NestedLoopJoin(outer, inner, condition) ==
    [type |-> "NestedLoopJoin", outer |-> outer, inner |-> inner, condition |-> condition]
Apply(outer, inner, mode) == [type |-> "Apply", outer |-> outer, inner |-> inner, mode |-> mode]
Create(input, pattern) == [type |-> "Create", input |-> input, pattern |-> pattern]
EmptyResult == [type |-> "EmptyResult"]
SingleRow == [type |-> "SingleRow"]

\* Expand with its input replaced, every other field kept.
WithInput(node, input) == [node EXCEPT !.input = input]

\* QueryOptimizer::fold_constants
RECURSIVE fold_constants(_)
fold_constants(node) ==
    CASE node.type = "Filter" ->
            LET folded_predicate == fold_expr(node.predicate)
            IN  IF IsLit(folded_predicate, LitBool(TRUE)) THEN fold_constants(node.input)
                ELSE IF IsLit(folded_predicate, LitBool(FALSE)) THEN EmptyResult
                ELSE Filter(fold_constants(node.input), folded_predicate)
      [] node.type = "Project" ->
            Project(fold_constants(node.input),
                    [i \in DOMAIN node.items |-> <<fold_expr(node.items[i][1]), node.items[i][2]>>])
      [] node.type = "Sort" ->
            Sort(fold_constants(node.input),
                 [i \in DOMAIN node.items |-> <<fold_expr(node.items[i][1]), node.items[i][2]>>])
      [] node.type = "Limit" -> Limit(fold_constants(node.input), node.count)
      [] node.type = "Skip" -> Skip(fold_constants(node.input), node.count)
      [] node.type = "Expand" -> WithInput(node, fold_constants(node.input))
      [] node.type = "HashJoin" ->
            HashJoin(fold_constants(node.left), fold_constants(node.right), node.on)
      [] node.type = "NestedLoopJoin" ->
            NestedLoopJoin(fold_constants(node.outer), fold_constants(node.inner),
                           [i \in DOMAIN node.condition |-> fold_expr(node.condition[i])])
      [] OTHER -> node

\* QueryOptimizer::expr_uses_only_variables
RECURSIVE expr_uses_only_variables(_)
expr_uses_only_variables(expr) ==
    CASE expr.type \in {"Variable", "Literal"} -> TRUE
      [] expr.type = "Property" -> expr_uses_only_variables(expr.expr)
      [] expr.type = "Binary" ->
            expr_uses_only_variables(expr.left) /\ expr_uses_only_variables(expr.right)
      [] expr.type = "Unary" -> expr_uses_only_variables(expr.expr)
      [] OTHER -> FALSE

\* QueryOptimizer::can_push_through_project
can_push_through_project(predicate, items) == expr_uses_only_variables(predicate)

\* QueryOptimizer::expr_references_only
RECURSIVE expr_references_only(_, _)
expr_references_only(expr, var) ==
    CASE expr.type = "Variable" -> expr.name = var
      [] expr.type = "Literal" -> TRUE
      [] expr.type = "Property" -> expr_references_only(expr.expr, var)
      [] expr.type = "Binary" ->
            expr_references_only(expr.left, var) /\ expr_references_only(expr.right, var)
      [] expr.type = "Unary" -> expr_references_only(expr.expr, var)
      [] OTHER -> FALSE

\* The match of split_predicates on two optional conjunctions.
AndOptions(l, r) ==
    IF l # None /\ r # None THEN Some(Binary(l[1], "And", r[1]))
    ELSE IF l # None THEN l
    ELSE r

\* QueryOptimizer::split_predicates: <<source, other>>
RECURSIVE split_predicates(_, _)
split_predicates(predicate, var) ==
    IF predicate.type = "Binary" /\ predicate.op = "And" THEN
       LET left == split_predicates(predicate.left, var)
           right == split_predicates(predicate.right, var)
       IN  <<AndOptions(left[1], right[1]), AndOptions(left[2], right[2])>>
    ELSE IF expr_references_only(predicate, var) THEN <<Some(predicate), None>>
    ELSE <<None, Some(predicate)>>

\* The Expand arm of push_down_predicates on a Filter.
PushThroughExpand(expand, predicate) ==
    LET split == split_predicates(predicate, expand.from_variable)
        result == IF split[1] # None
                  THEN WithInput(expand, Filter(expand.input, split[1][1]))
                  ELSE expand
    IN  IF split[2] # None THEN Filter(result, split[2][1]) ELSE result

\* QueryOptimizer::push_down_predicates
RECURSIVE push_down_predicates(_)
push_down_predicates(node) ==
    CASE node.type = "Filter" ->
            LET inner == node.input
                predicate == node.predicate
            IN  CASE inner.type = "Project" ->
                        IF can_push_through_project(predicate, inner.items)
                        THEN Project(Filter(inner.input, predicate), inner.items)
                        ELSE Filter(Project(inner.input, inner.items), predicate)
                  [] inner.type = "Sort" ->
                        Sort(Filter(inner.input, predicate), inner.items)
                  [] inner.type = "Filter" ->
                        push_down_predicates(
                            Filter(inner.input, Binary(inner.predicate, "And", predicate)))
                  [] inner.type = "Expand" -> PushThroughExpand(inner, predicate)
                  [] OTHER -> Filter(push_down_predicates(inner), predicate)
      [] node.type \in {"Project", "Sort", "Limit", "Skip", "Expand"} ->
            WithInput(node, push_down_predicates(node.input))
      [] OTHER -> node

\* QueryOptimizer::eliminate_redundant
RECURSIVE eliminate_redundant(_)
eliminate_redundant(node) ==
    CASE node.type = "Skip" /\ node.count = 0 -> eliminate_redundant(node.input)
      [] node.type = "Distinct" ->
            LET inner == eliminate_redundant(node.input)
            IN  IF inner.type = "Distinct" THEN inner ELSE Distinct(inner, node.columns)
      [] node.type = "Limit" /\ node.count = 0 -> EmptyResult
      [] node.type \in {"Filter", "Project", "Sort", "Limit", "Skip"} ->
            WithInput(node, eliminate_redundant(node.input))
      [] OTHER -> node

\* QueryOptimizer::estimate_rows
RECURSIVE estimate_rows(_)
estimate_rows(node) ==
    CASE node.type = "EmptyResult" -> 0
      [] node.type = "SingleRow" -> 1
      [] node.type = "NodeScan" -> IF node.label # None THEN 1000 ELSE 10000
      [] node.type = "EdgeScan" -> IF node.rel_type # None THEN 5000 ELSE 50000
      [] node.type = "IndexSeek" -> 10
      [] node.type = "Filter" -> estimate_rows(node.input) \div 10
      [] node.type \in {"Project", "Sort"} -> estimate_rows(node.input)
      [] node.type = "Limit" -> Min(estimate_rows(node.input), node.count)
      [] node.type = "Skip" ->
            IF estimate_rows(node.input) > node.count
            THEN estimate_rows(node.input) - node.count ELSE 0
      [] node.type = "Distinct" -> estimate_rows(node.input) \div 2
      [] node.type = "Expand" -> estimate_rows(node.input) * 5
      [] node.type = "HashJoin" ->
            (estimate_rows(node.left) * estimate_rows(node.right)) \div 100
      [] node.type = "NestedLoopJoin" ->
            (estimate_rows(node.outer) * estimate_rows(node.inner)) \div 10
      [] OTHER -> 1000

\* The (l, r) -> (r, l) map of reorder_joins over the join keys.
SwapOn(on) == [i \in DOMAIN on |-> <<on[i][2], on[i][1]>>]

\* The comparison of reorder_joins with the keys' orientation lost.
ReorderedKeepingOn(left, right, on) ==
    IF estimate_rows(left) < estimate_rows(right)
    THEN HashJoin(right, left, on)
    ELSE HashJoin(left, right, on)

\* The HashJoin arm of reorder_joins on reordered inputs: the smaller input
\* goes to the right, the build side.
Reordered(left, right, on) ==
    IF estimate_rows(left) < estimate_rows(right)
    THEN HashJoin(right, left, SwapOn(on))
    ELSE HashJoin(left, right, on)

\* QueryOptimizer::reorder_joins
RECURSIVE reorder_joins(_)
reorder_joins(node) ==
    CASE node.type = "HashJoin" ->
            Reordered(reorder_joins(node.left), reorder_joins(node.right), node.on)
      [] node.type \in {"Filter", "Project"} ->
            WithInput(node, reorder_joins(node.input))
      [] OTHER -> node

\* impl PartialEq for PlanNode: structural on NodeScan, EmptyResult,
\* SingleRow, Filter, Project and Limit, false on everything else.
RECURSIVE PlanEq(_, _)
PlanEq(a, b) ==
    CASE a.type = "NodeScan" /\ b.type = "NodeScan" ->
            a.variable = b.variable /\ a.label = b.label
      [] a.type = "EmptyResult" /\ b.type = "EmptyResult" -> TRUE
      [] a.type = "SingleRow" /\ b.type = "SingleRow" -> TRUE
      [] a.type = "Filter" /\ b.type = "Filter" ->
            PlanEq(a.input, b.input) /\ a.predicate = b.predicate
      [] a.type = "Project" /\ b.type = "Project" ->
            PlanEq(a.input, b.input) /\ a.items = b.items
      [] a.type = "Limit" /\ b.type = "Limit" ->
            PlanEq(a.input, b.input) /\ a.count = b.count
      [] OTHER -> FALSE

\* QueryOptimizer::optimize_once
optimize_once(node) ==
    reorder_joins(eliminate_redundant(push_down_predicates(fold_constants(node))))

\* The loop of optimize with `iterations` rounds left.
RECURSIVE OptimizeLoop(_, _)
OptimizeLoop(root, iterations) ==
    IF iterations = 0 THEN root
    ELSE LET Round(optimized) ==
                 IF PlanEq(optimized, root) THEN root
                 ELSE OptimizeLoop(optimized, iterations - 1)
         IN  Round(optimize_once(root))

\* QueryOptimizer::new and the derived Default
QueryOptimizerNew == [max_iterations |-> 10]
QueryOptimizerDefault == [max_iterations |-> 0]

\* ExecutionPlan, without the floating-point estimated_cost.
ExecutionPlan(root, estimated_rows, required_indexes) ==
    [root |-> root, estimated_rows |-> estimated_rows,
     required_indexes |-> required_indexes]

\* QueryOptimizer::optimize
optimize(self, plan) ==
    LET Optimized(root) == ExecutionPlan(root, estimate_rows(root), plan.required_indexes)
    IN  Optimized(OptimizeLoop(plan.root, self.max_iterations))

(***************************************************************************)
(* The optimizer as a state machine: a plan is handed to                   *)
(* QueryOptimizer::new().optimize.  The plans are the shapes the rewrites  *)
(* distinguish, over a few leaves and predicates.                          *)
(***************************************************************************)
PA == Binary(Property(Variable("a"), "age"), "Gt", IntLit(1))
PB == Binary(Property(Variable("b"), "age"), "Gt", IntLit(1))
PParam == Binary(Property(Variable("a"), "name"), "Eq", Parameter("p"))
PCall == Binary(FunctionCall("size", <<Property(Variable("a"), "name")>>), "Gt", IntLit(3))
PSum == Binary(Binary(IntLit(2), "Add", IntLit(3)), "Eq", IntLit(5))

Atoms == {PA, PB, PParam, PCall, PSum, True, False}
Predicates ==
    Atoms \cup {Binary(x, "And", y) : x, y \in Atoms}
          \cup {Unary("Not", Unary("Not", x)) : x \in Atoms}

Leaves ==
    {NodeScan("a", None), NodeScan("a", Some("Person")),
     IndexSeek("a", "Person", "name", Literal(LitStr(<<"x">>)))}
SortItems == <<<<Property(Variable("a"), "name"), TRUE>>>>
ProjectItems == <<<<Variable("a"), "a">>>>
ExpandFrom(input) == Expand(input, "a", None, "b", <<"KNOWS">>, "Outgoing", 1, Some(1))

FilterPlans ==
    UNION {{Filter(x, p),
            Distinct(Project(Filter(x, p), ProjectItems), <<>>),
            Filter(Sort(x, SortItems), p),
            Filter(ExpandFrom(x), p)} : x \in Leaves, p \in Predicates}

JoinInputs ==
    Leaves \cup {Filter(x, p) : x \in Leaves, p \in {PA, True, False}}
           \cup {Limit(x, 5) : x \in Leaves}
JoinKeys == {<<>>, <<<<"a", "b">>>>, <<<<"a", "b">>, <<"c", "d">>>>}
JoinPlans == {HashJoin(l, r, on) : l \in JoinInputs, r \in JoinInputs, on \in JoinKeys}

OptimizerPlans == FilterPlans \cup JoinPlans

Optimize ==
    /\ engine.pc = "planned"
    /\ engine' = [pc |-> "optimized", input |-> engine.plan,
                  plan |-> optimize(QueryOptimizerNew, engine.plan)]
    /\ UNCHANGED <<ringVars, audioVars, duck, lex>>

OptimizerInit ==
    /\ RingIdle
    /\ AudioIdle
    /\ duck = [pc |-> "idle"]
    /\ lex = [pc |-> "idle"]
    /\ \E root \in OptimizerPlans :
          engine = [pc |-> "planned", plan |-> ExecutionPlan(root, 0, <<>>)]

OptimizerNext == Optimize

SpecOptimizer == OptimizerInit /\ [][OptimizerNext]_vars

(***************************************************************************)
(* Constant folding as a state machine: fold_expr is called on the sum,    *)
(* difference, product, quotient or remainder of two integer literals, or  *)
(* on the negation of one, in a build with or without overflow checks.     *)
(* The literals are the ones at and next to the limits of i64 and around 0.*)
(***************************************************************************)
FoldInts ==
    {I64Min, I64Min + 1, -(I64Max \div 2) - 1, -2, -1, 0, 1, 2, I64Max \div 2 + 1,
     I64Max - 1, I64Max}
ArithmeticOps == {"Add", "Sub", "Mul", "Div", "Mod"}
FoldExprs ==
    {Binary(IntLit(a), op, IntLit(b)) : a, b \in FoldInts, op \in ArithmeticOps}
       \cup {Unary("Neg", IntLit(a)) : a \in FoldInts}

Fold ==
    /\ engine.pc = "expr"
    /\ engine' = [pc |-> "folded", overflow_checks |-> engine.overflow_checks,
                  expr |-> engine.expr,
                  result |-> FoldIn(engine.overflow_checks, engine.expr)]
    /\ UNCHANGED <<ringVars, audioVars, duck, lex>>

FoldInit ==
    /\ RingIdle
    /\ AudioIdle
    /\ duck = [pc |-> "idle"]
    /\ lex = [pc |-> "idle"]
    /\ \E expr \in FoldExprs, overflow_checks \in BOOLEAN :
          engine = [pc |-> "expr", overflow_checks |-> overflow_checks, expr |-> expr]

FoldNext == Fold

SpecFold == FoldInit /\ [][FoldNext]_vars

(***************************************************************************)
(* The query AST (ast.rs) and the planner (planner.rs).  An IndexMap is    *)
(* the sequence of its <<key, value>> entries in insertion order.          *)
(***************************************************************************)
SetProperty(input, items) == [type |-> "SetProperty", input |-> input, items |-> items]
Delete(input, items, detach) ==
    [type |-> "Delete", input |-> input, items |-> items, detach |-> detach]

NodePattern(variable, labels, properties) ==
    [kind |-> "Node", variable |-> variable, labels |-> labels, properties |-> properties]
EdgePattern(variable, rel_types, properties, direction, length) ==
    [kind |-> "Edge", variable |-> variable, rel_types |-> rel_types,
     properties |-> properties, direction |-> direction, length |-> length]
LengthSpec(min, max) == [min |-> min, max |-> max]
PathPattern(elements) == [elements |-> elements]
Pattern(paths) == [paths |-> paths]

MatchClause(pattern, optional) == [type |-> "Match", pattern |-> pattern, optional |-> optional]
WhereClause(predicate) == [type |-> "Where", predicate |-> predicate]
ReturnItem(expr, alias) == [expr |-> expr, alias |-> alias]
ReturnClause(items, distinct) == [type |-> "Return", items |-> items, distinct |-> distinct]
OrderItem(expr, ascending) == [expr |-> expr, ascending |-> ascending]
OrderByClause(items) == [type |-> "OrderBy", items |-> items]
LimitClause(count) == [type |-> "Limit", count |-> count]
SkipClause(count) == [type |-> "Skip", count |-> count]
CreateClause(pattern) == [type |-> "Create", pattern |-> pattern]
SetClause(items) == [type |-> "Set", items |-> items]
DeleteClause(items, detach) == [type |-> "Delete", items |-> items, detach |-> detach]
WithClause(items, distinct) == [type |-> "With", items |-> items, distinct |-> distinct]
UnwindClause(expr, alias) == [type |-> "Unwind", expr |-> expr, alias |-> alias]
Query(clauses) == [clauses |-> clauses]

IndexRequirement(label, property, index_type) ==
    [label |-> label, property |-> property, index_type |-> index_type]

\* format!("_n{i}") and format!("_col{index}") for the indexes that occur
GeneratedNode(i) == <<"_n0", "_n1", "_n2", "_n3", "_n4", "_n5", "_n6">>[i + 1]
GeneratedColumn(i) == <<"_col0", "_col1", "_col2", "_col3">>[i + 1]

\* Option::unwrap_or
UnwrapOr(option, default) == IF option # None THEN option[1] ELSE default

\* The reduce of properties_to_predicate: the predicates AND-ed from the left.
RECURSIVE AndReduce(_)
AndReduce(predicates) ==
    IF Len(predicates) = 1 THEN predicates[1]
    ELSE Binary(AndReduce(SubSeq(predicates, 1, Len(predicates) - 1)), "And",
                predicates[Len(predicates)])

\* QueryPlanner::properties_to_predicate
properties_to_predicate(var, properties) ==
    LET predicates ==
           [i \in DOMAIN properties |->
               Binary(Property(Variable(var), properties[i][1]), "Eq", properties[i][2])]
    IN  IF predicates = <<>> THEN True ELSE AndReduce(predicates)

\* The state of the loop of plan_path_pattern.
PathState(current, last_node_var, indexes) ==
    [current |-> current, last_node_var |-> last_node_var, indexes |-> indexes]

\* The PathElement::Node arm of plan_path_pattern for element i (from 0).
PlanNodeElement(node, i, st) ==
    IF i = 0 THEN
       LET var == UnwrapOr(node.variable, GeneratedNode(i))
           label == IF node.labels # <<>> THEN Some(node.labels[1]) ELSE None
           indexes ==
              IF label # None /\ node.properties # <<>>
              THEN Append(st.indexes,
                          IndexRequirement(label[1], node.properties[1][1], "BTree"))
              ELSE st.indexes
           scan == IF st.current.type = "SingleRow"
                   THEN NodeScan(var, label)
                   ELSE NestedLoopJoin(st.current, NodeScan(var, label), None)
           current == IF node.properties # <<>>
                      THEN Filter(scan, properties_to_predicate(var, node.properties))
                      ELSE scan
       IN  PathState(current, Some(var), indexes)
    ELSE PathState(st.current, node.variable, st.indexes)

\* The PathElement::Edge arm of plan_path_pattern for element i, the source
\* node being known.
PlanEdgeElement(elements, edge, i, st) ==
    LET has_next == i + 2 <= Len(elements) /\ elements[i + 2].kind = "Node"
        to_var == IF has_next
                  THEN UnwrapOr(elements[i + 2].variable, GeneratedNode(i + 1))
                  ELSE GeneratedNode(i + 1)
        expand == Expand(st.current, st.last_node_var[1], edge.variable, to_var,
                         edge.rel_types, edge.direction,
                         IF edge.length # None /\ edge.length[1].min # None
                         THEN edge.length[1].min[1] ELSE 1,
                         IF edge.length # None /\ edge.length[1].max # None
                         THEN edge.length[1].max ELSE Some(1))
        edge_filtered ==
           IF edge.properties # <<>> /\ edge.variable # None
           THEN Filter(expand, properties_to_predicate(edge.variable[1], edge.properties))
           ELSE expand
        current ==
           IF has_next /\ elements[i + 2].properties # <<>>
           THEN Filter(edge_filtered,
                       properties_to_predicate(to_var, elements[i + 2].properties))
           ELSE edge_filtered
    IN  PathState(current, Some(to_var), st.indexes)

\* The loop of plan_path_pattern from element i on.
RECURSIVE PlanPathFrom(_, _, _)
PlanPathFrom(elements, i, st) ==
    IF i >= Len(elements) THEN Ok(st)
    ELSE LET element == elements[i + 1]
         IN  IF element.kind = "Node"
             THEN PlanPathFrom(elements, i + 1, PlanNodeElement(element, i, st))
             ELSE IF st.last_node_var = None THEN Err("PlanningError")
             ELSE PlanPathFrom(elements, i + 1, PlanEdgeElement(elements, element, i, st))

\* QueryPlanner::plan_path_pattern: Ok of the plan and the indexes, or Err.
plan_path_pattern(path, input, indexes) ==
    PlanPathFrom(path.elements, 0, PathState(input, None, indexes))

\* The loop of plan_match over the paths from path i (from 1) on.
RECURSIVE PlanPathsFrom(_, _, _, _)
PlanPathsFrom(paths, i, current, indexes) ==
    IF i > Len(paths) THEN Ok(PathState(current, None, indexes))
    ELSE LET Planned(planned) ==
                 IF planned.tag # "Ok" THEN planned
                 ELSE PlanPathsFrom(paths, i + 1, planned.value.current,
                                    planned.value.indexes)
         IN  Planned(plan_path_pattern(paths[i], current, indexes))

\* QueryPlanner::plan_match
plan_match(match_clause, input, indexes) ==
    LET Planned(planned) ==
            IF planned.tag # "Ok" THEN planned
            ELSE IF match_clause.optional
            THEN Ok(PathState(Apply(SingleRow, planned.value.current, "Optional"), None,
                              planned.value.indexes))
            ELSE planned
    IN  Planned(PlanPathsFrom(match_clause.pattern.paths, 1, input, indexes))

\* QueryPlanner::expr_to_name
expr_to_name(expr, index) ==
    IF expr.type \in {"Variable", "Property", "FunctionCall"} THEN expr.name
    ELSE GeneratedColumn(index)

\* The alias of item i (from 1) of a RETURN or WITH.
ItemAlias(items, i) == UnwrapOr(items[i].alias, expr_to_name(items[i].expr, i - 1))

\* QueryPlanner::plan_return and plan_with
plan_return(return_clause, input) ==
    LET items == return_clause.items
        plan_ == Project(input, [i \in DOMAIN items |-> <<items[i].expr, ItemAlias(items, i)>>])
    IN  IF return_clause.distinct
        THEN Distinct(plan_, [i \in DOMAIN items |-> ItemAlias(items, i)])
        ELSE plan_

\* QueryPlanner::plan_where
plan_where(where_clause, input) == Filter(input, where_clause.predicate)

\* QueryPlanner::plan_order_by
plan_order_by(order_clause, input) ==
    Sort(input, [i \in DOMAIN order_clause.items |->
                    <<order_clause.items[i].expr, order_clause.items[i].ascending>>])

\* QueryPlanner::plan_clause: Ok of the plan and the indexes, or Err.
plan_clause(clause, input, indexes) ==
    CASE clause.type = "Match" -> plan_match(clause, input, indexes)
      [] clause.type = "Where" -> Ok(PathState(plan_where(clause, input), None, indexes))
      [] clause.type \in {"Return", "With"} ->
            Ok(PathState(plan_return(clause, input), None, indexes))
      [] clause.type = "OrderBy" -> Ok(PathState(plan_order_by(clause, input), None, indexes))
      [] clause.type = "Limit" -> Ok(PathState(Limit(input, clause.count), None, indexes))
      [] clause.type = "Skip" -> Ok(PathState(Skip(input, clause.count), None, indexes))
      [] clause.type = "Create" -> Ok(PathState(Create(input, clause.pattern), None, indexes))
      [] clause.type = "Set" ->
            Ok(PathState(SetProperty(input,
                  [i \in DOMAIN clause.items |-> <<clause.items[i].target, clause.items[i].value>>]),
                  None, indexes))
      [] clause.type = "Delete" ->
            Ok(PathState(Delete(input, clause.items, clause.detach), None, indexes))
      [] OTHER -> Err("PlanningError")

\* The loop of plan over the clauses from clause i (from 1) on.
RECURSIVE PlanClausesFrom(_, _, _, _)
PlanClausesFrom(clauses, i, current, indexes) ==
    IF i > Len(clauses) THEN Ok(ExecutionPlan(current, 0, indexes))
    ELSE LET Planned(planned) ==
                 IF planned.tag # "Ok" THEN planned
                 ELSE PlanClausesFrom(clauses, i + 1, planned.value.current,
                                      planned.value.indexes)
         IN  Planned(plan_clause(clauses[i], current, indexes))

\* QueryPlanner::plan
plan(query) == PlanClausesFrom(query.clauses, 1, SingleRow, <<>>)

\* QueryEngine::new: every component is its Default.
QueryEngineNew == [optimizer |-> QueryOptimizerDefault]

\* QueryEngine::plan
engine_plan(self, query) ==
    LET Planned(planned) ==
            IF planned.tag # "Ok" THEN planned
            ELSE Ok(optimize(self.optimizer, planned.value))
    IN  Planned(plan(query))

\* QueryEngine::compile on a text that parse turns into `ast`.
compile(self, ast) == engine_plan(self, ast)

(***************************************************************************)
(* The engine as a state machine: a parsed query is planned and then       *)
(* optimized by QueryOptimizer::new(), or compiled by QueryEngine::new().  *)
(***************************************************************************)
NameX == <<<<"name", Literal(LitStr(<<"x">>))>>>>
NameAge == <<<<"name", Literal(LitStr(<<"x">>))>>, <<"age", IntLit(1)>>>>

FirstNodes ==
    {NodePattern(Some("a"), <<>>, <<>>),
     NodePattern(Some("a"), <<"Person">>, <<>>),
     NodePattern(Some("a"), <<>>, NameX),
     NodePattern(Some("a"), <<"Person", "Admin">>, NameAge)}
LaterNodes ==
    {NodePattern(Some("b"), <<>>, <<>>),
     NodePattern(Some("b"), <<"Person">>, NameX),
     NodePattern(None, <<"City">>, <<>>)}
Edges ==
    {EdgePattern(None, <<"KNOWS">>, <<>>, "Outgoing", None),
     EdgePattern(Some("r"), <<>>, NameX, "Both", Some(LengthSpec(Some(2), None)))}

Paths ==
    {PathPattern(<<n>>) : n \in FirstNodes}
       \cup {PathPattern(<<n, e, m>>) : n \in FirstNodes, e \in Edges, m \in LaterNodes}
       \cup {PathPattern(<<n, e, m, e, m>>) : n \in FirstNodes, e \in Edges, m \in LaterNodes}

ReturnA(distinct) == ReturnClause(<<ReturnItem(Variable("a"), None)>>, distinct)
\* WITH a.age AS x WHERE x > 5 RETURN x
WithAgeAsX == WithClause(<<ReturnItem(Property(Variable("a"), "age"), Some("x"))>>, FALSE)
PX == Binary(Variable("x"), "Gt", IntLit(5))
\* WITH a, once more than the optimizer has rounds, then WHERE a.age > 1
WithA == WithClause(<<ReturnItem(Variable("a"), None)>>, FALSE)
WithChain == [i \in 1 .. QueryOptimizerNew.max_iterations + 1 |-> WithA]
OrderByName == OrderByClause(<<OrderItem(Property(Variable("a"), "name"), TRUE)>>)
Tails ==
    {<<ReturnA(FALSE)>>,
     <<WhereClause(True), ReturnA(FALSE)>>,
     <<WhereClause(PA), ReturnA(TRUE), SkipClause(0), LimitClause(5)>>,
     <<OrderByName, WhereClause(PA)>>,
     <<WithAgeAsX, WhereClause(PX), ReturnClause(<<ReturnItem(Variable("x"), None)>>, FALSE)>>,
     <<SkipClause(0), MatchClause(Pattern(<<PathPattern(<<NodePattern(Some("c"), <<"City">>, <<>>)>>)>>), FALSE),
       ReturnA(FALSE)>>,
     WithChain \o <<WhereClause(PA)>>}

Queries ==
    {Query(<<MatchClause(Pattern(<<p>>), optional)>> \o tail) :
        p \in Paths, optional \in BOOLEAN, tail \in Tails}

\* QueryPlanner::plan on the parsed query
PlanQuery ==
    /\ engine.pc = "parsed"
    /\ LET Planned(planned) ==
               IF planned.tag = "Ok"
               THEN [pc |-> "planned", query |-> engine.query, plan |-> planned.value]
               ELSE [pc |-> "failed", query |-> engine.query]
       IN  engine' = Planned(plan(engine.query))
    /\ UNCHANGED <<ringVars, audioVars, duck, lex>>

\* QueryEngine::new().compile on the text of the parsed query
Compile ==
    /\ engine.pc = "parsed"
    /\ LET Compiled(compiled) ==
               IF compiled.tag = "Ok"
               THEN [pc |-> "compiled", query |-> engine.query, plan |-> compiled.value]
               ELSE [pc |-> "failed", query |-> engine.query]
       IN  engine' = Compiled(compile(QueryEngineNew, engine.query))
    /\ UNCHANGED <<ringVars, audioVars, duck, lex>>

EngineInit ==
    /\ RingIdle
    /\ AudioIdle
    /\ duck = [pc |-> "idle"]
    /\ lex = [pc |-> "idle"]
    /\ \E query \in Queries : engine = [pc |-> "parsed", query |-> query]

EngineNext == PlanQuery \/ Optimize \/ Compile

SpecEngine == EngineInit /\ [][EngineNext]_vars

(***************************************************************************)
(* The lexer (parser.rs).  A text is the sequence of its characters, all   *)
(* of them ASCII, so that byte offsets and character counts agree.  The    *)
(* iterator `chars` over input[base..] is the pair of `base` and of the    *)
(* index `idx`, relative to base, of the character it yields next.         *)
(***************************************************************************)
LowerCase == <<"a", "b", "c", "d", "e", "f", "g", "h", "i", "j", "k", "l", "m", "n", "o", "p", "q", "r", "s", "t", "u", "v", "w", "x", "y", "z">>
UpperCase == <<"A", "B", "C", "D", "E", "F", "G", "H", "I", "J", "K", "L", "M", "N", "O", "P", "Q", "R", "S", "T", "U", "V", "W", "X", "Y", "Z">>
Digits == <<"0", "1", "2", "3", "4", "5", "6", "7", "8", "9">>

Range(f) == {f[i] : i \in DOMAIN f}

\* char::is_whitespace, is_alphabetic, is_ascii_digit, is_alphanumeric
IsWhitespace(c) == c \in {" ", "\t", "\n", "\r"}
IsAlphabetic(c) == c \in Range(LowerCase) \cup Range(UpperCase)
IsAsciiDigit(c) == c \in Range(Digits)
IsAlphanumeric(c) == IsAlphabetic(c) \/ IsAsciiDigit(c)

\* str::to_uppercase
ToUpperChar(c) ==
    IF c \in Range(LowerCase)
    THEN UpperCase[CHOOSE i \in DOMAIN LowerCase : LowerCase[i] = c]
    ELSE c
ToUppercase(s) == [i \in DOMAIN s |-> ToUpperChar(s[i])]

\* &input[from..end]
Slice(input, from, end) == SubSeq(input, from + 1, end)

\* Token
Tok(type) == [type |-> type]
TokText(type, text) == [type |-> type, text |-> text]
TokInteger(n) == [type |-> "Integer", n |-> n]
Eof == Tok("Eof")

\* QueryError::ParseError
ParseError(position, message) ==
    [tag |-> "ParseError", position |-> position, message |-> message]
\* Ok of a value of the parser
Done(value) == [tag |-> "Ok", value |-> value]

\* Lexer::new
LexerNew(input) == [input |-> input, base |-> 0, idx |-> 0, position |-> 0]

\* Lexer::peek_char
peek_char(self) ==
    IF self.base + self.idx < Len(self.input)
    THEN Some(self.input[self.base + self.idx + 1])
    ELSE None

\* Lexer::next_char: the lexer afterwards; it yields (self.idx, peek_char).
next_char(self) ==
    IF peek_char(self) # None
    THEN [self EXCEPT !.idx = self.idx + 1, !.position = self.idx + 1]
    ELSE self

\* The line-comment loop of skip_whitespace.
RECURSIVE SkipLineComment(_)
SkipLineComment(self) ==
    IF peek_char(self) = None \/ peek_char(self) = Some("\n") THEN self
    ELSE SkipLineComment(next_char(self))

\* The block-comment loop of skip_whitespace.
RECURSIVE SkipBlockComment(_)
SkipBlockComment(self) ==
    IF peek_char(self) = None THEN self
    ELSE IF peek_char(self) = Some("*") /\ peek_char(next_char(self)) = Some("/")
    THEN next_char(next_char(self))
    ELSE SkipBlockComment(next_char(self))

\* The backtrack of skip_whitespace to the offset `pos`.
Backtrack(self, pos) == [self EXCEPT !.base = pos, !.idx = 0, !.position = pos]

\* Lexer::skip_whitespace
RECURSIVE skip_whitespace(_)
skip_whitespace(self) ==
    LET c == peek_char(self)
    IN  IF c = None THEN self
        ELSE IF IsWhitespace(c[1]) THEN skip_whitespace(next_char(self))
        ELSE IF c[1] = "/" THEN
           IF peek_char(next_char(self)) = Some("/")
           THEN skip_whitespace(SkipLineComment(next_char(self)))
           ELSE IF peek_char(next_char(self)) = Some("*")
           THEN skip_whitespace(SkipBlockComment(next_char(next_char(self))))
           ELSE Backtrack(self, self.position)
        ELSE self

\* The loop of read_identifier.
RECURSIVE SkipIdentifier(_)
SkipIdentifier(self) ==
    IF peek_char(self) # None /\ (IsAlphanumeric(peek_char(self)[1]) \/ peek_char(self)[1] = "_")
    THEN SkipIdentifier(next_char(self))
    ELSE self

\* Lexer::read_identifier: the lexer afterwards and the text.
read_identifier(self, from) ==
    LET after == SkipIdentifier(self)
    IN  [lexer |-> after, text |-> Slice(self.input, from, after.position)]

\* The loop of read_string from the lexer `self`, the string having begun at
\* `from`: the lexer afterwards and the text or the error.
RECURSIVE ReadStringFrom(_, _, _)
ReadStringFrom(self, quote, from) ==
    LET c == peek_char(self)
        after == next_char(self)
    IN  IF c = None
        THEN [lexer |-> self, result |-> ParseError(from, "Unterminated string")]
        ELSE IF c[1] = quote
        THEN [lexer |-> after,
              result |-> Done(Slice(self.input, from, after.position - 1))]
        ELSE IF c[1] = "\\" THEN ReadStringFrom(next_char(after), quote, from)
        ELSE ReadStringFrom(after, quote, from)

\* Lexer::read_string
read_string(self, quote) == ReadStringFrom(self, quote, self.position)

\* str::parse::<i64> on a text, with unwrap_or(0): an optional sign and
\* digits, in the range of an Integer.
RECURSIVE DigitsValue(_)
DigitsValue(text) ==
    IF text = <<>> THEN 0
    ELSE 10 * DigitsValue(SubSeq(text, 1, Len(text) - 1))
            + (CHOOSE d \in 0 .. 9 : Digits[d + 1] = text[Len(text)])
ParseI64(text) ==
    LET signed == text # <<>> /\ text[1] \in {"+", "-"}
        digits == IF signed THEN Tail(text) ELSE text
        value == IF signed /\ text[1] = "-" THEN -DigitsValue(digits) ELSE DigitsValue(digits)
    IN  IF digits # <<>> /\ (\A i \in DOMAIN digits : IsAsciiDigit(digits[i]))
           /\ value >= -Pow2(IntBits - 1) /\ value < Pow2(IntBits - 1)
        THEN value ELSE 0

\* The loop of read_number: the lexer afterwards, has_dot and has_exp.
RECURSIVE ReadNumberFrom(_, _, _)
ReadNumberFrom(self, has_dot, has_exp) ==
    LET c == peek_char(self)
        next_pos == self.position + 1
    IN  IF c = None THEN <<self, has_dot, has_exp>>
        ELSE IF IsAsciiDigit(c[1]) THEN ReadNumberFrom(next_char(self), has_dot, has_exp)
        ELSE IF c[1] = "." /\ ~has_dot /\ ~has_exp THEN
           IF next_pos < Len(self.input) /\ IsAsciiDigit(self.input[next_pos + 1])
           THEN ReadNumberFrom(next_char(self), TRUE, has_exp)
           ELSE <<self, has_dot, has_exp>>
        ELSE IF c[1] \in {"e", "E"} /\ ~has_exp THEN
           IF peek_char(next_char(self)) \in {Some("+"), Some("-")}
           THEN ReadNumberFrom(next_char(next_char(self)), has_dot, TRUE)
           ELSE ReadNumberFrom(next_char(self), has_dot, TRUE)
        ELSE <<self, has_dot, has_exp>>

\* Lexer::read_number: the lexer afterwards and the token.
read_number(self, from) ==
    LET number == ReadNumberFrom(self, FALSE, FALSE)
        text == Slice(self.input, from, number[1].position)
    IN  [lexer |-> number[1],
         token |-> IF number[2] \/ number[3] THEN TokText("Float", text)
                   ELSE TokInteger(ParseI64(text))]

Keywords ==
    {
     <<<<"M", "A", "T", "C", "H">>, "Match">>,
     <<<<"O", "P", "T", "I", "O", "N", "A", "L">>, "OptionalMatch">>,
     <<<<"W", "H", "E", "R", "E">>, "Where">>,
     <<<<"R", "E", "T", "U", "R", "N">>, "Return">>,
     <<<<"O", "R", "D", "E", "R">>, "OrderBy">>,
     <<<<"B", "Y">>, "OrderBy">>,
     <<<<"L", "I", "M", "I", "T">>, "Limit">>,
     <<<<"S", "K", "I", "P">>, "Skip">>,
     <<<<"C", "R", "E", "A", "T", "E">>, "Create">>,
     <<<<"S", "E", "T">>, "Set">>,
     <<<<"D", "E", "L", "E", "T", "E">>, "Delete">>,
     <<<<"D", "E", "T", "A", "C", "H">>, "DetachDelete">>,
     <<<<"W", "I", "T", "H">>, "With">>,
     <<<<"U", "N", "W", "I", "N", "D">>, "Unwind">>,
     <<<<"A", "S">>, "As">>,
     <<<<"D", "I", "S", "T", "I", "N", "C", "T">>, "Distinct">>,
     <<<<"A", "N", "D">>, "And">>,
     <<<<"O", "R">>, "Or">>,
     <<<<"X", "O", "R">>, "Xor">>,
     <<<<"N", "O", "T">>, "Not">>,
     <<<<"I", "N">>, "In">>,
     <<<<"I", "S">>, "Is">>,
     <<<<"N", "U", "L", "L">>, "Null">>,
     <<<<"T", "R", "U", "E">>, "True">>,
     <<<<"F", "A", "L", "S", "E">>, "False">>,
     <<<<"C", "O", "N", "T", "A", "I", "N", "S">>, "Contains">>,
     <<<<"S", "T", "A", "R", "T", "S">>, "StartsWith">>,
     <<<<"E", "N", "D", "S">>, "EndsWith">>,
     <<<<"C", "A", "S", "E">>, "Case">>,
     <<<<"W", "H", "E", "N">>, "When">>,
     <<<<"T", "H", "E", "N">>, "Then">>,
     <<<<"E", "L", "S", "E">>, "Else">>,
     <<<<"E", "N", "D">>, "End">>,
     <<<<"E", "X", "I", "S", "T", "S">>, "Exists">>,
     <<<<"C", "O", "U", "N", "T">>, "Count">>,
     <<<<"A", "S", "C">>, "Asc">>,
     <<<<"A", "S", "C", "E", "N", "D", "I", "N", "G">>, "Asc">>,
     <<<<"D", "E", "S", "C">>, "Desc">>,
     <<<<"D", "E", "S", "C", "E", "N", "D", "I", "N", "G">>, "Desc">>
    }

\* Lexer::keyword_or_ident
keyword_or_ident(s) ==
    IF \E k \in Keywords : k[1] = ToUppercase(s)
    THEN Tok((CHOOSE k \in Keywords : k[1] = ToUppercase(s))[2])
    ELSE TokText("Ident", s)

\* The character that quotes an identifier, by its name.
Backtick == "backtick"

\* The characters that next_token turns into a token by themselves.
SingleCharTokens ==
    {<<"(", "LParen">>, <<")", "RParen">>, <<"[", "LBracket">>, <<"]", "RBracket">>,
     <<"{", "LBrace">>, <<"}", "RBrace">>, <<":", "Colon">>, <<",", "Comma">>,
     <<"|", "Pipe">>, <<"+", "Plus">>, <<"*", "Star">>, <<"/", "Slash">>,
     <<"%", "Percent">>, <<"^", "Caret">>}

\* The token of a character that may begin a two-character token: `pairs`
\* are the second characters and their tokens, `single` the token otherwise.
TwoCharToken(self, pairs, single) ==
    IF \E p \in pairs : peek_char(self) = Some(p[1])
    THEN [lexer |-> next_char(self),
          result |-> Done(Tok((CHOOSE p \in pairs : peek_char(self) = Some(p[1]))[2]))]
    ELSE [lexer |-> self, result |-> Done(Tok(single))]

\* A string token of the given type, or the error of read_string.
StringToken(self, quote, type) ==
    LET s == read_string(self, quote)
    IN  [lexer |-> s.lexer,
         result |-> IF s.result.tag = "Ok" THEN Done(TokText(type, s.result.value))
                    ELSE s.result]

\* Lexer::next_token: the lexer afterwards and Ok of the token or the error.
next_token(self) ==
    LET Token(skipped, c, from, lexer) ==
        IF c = None THEN [lexer |-> skipped, result |-> Done(Eof)]
        ELSE CASE \E t \in SingleCharTokens : t[1] = c[1] ->
                     [lexer |-> lexer,
                      result |-> Done(Tok((CHOOSE t \in SingleCharTokens : t[1] = c[1])[2]))]
               [] c[1] = "." -> TwoCharToken(lexer, {<<".", "DoubleDot">>}, "Dot")
               [] c[1] = "-" -> TwoCharToken(lexer, {<<">", "Arrow">>}, "Dash")
               [] c[1] = "<" ->
                     TwoCharToken(lexer, {<<"-", "LeftArrow">>, <<"=", "Le">>, <<">", "Ne">>}, "Lt")
               [] c[1] = ">" -> TwoCharToken(lexer, {<<"=", "Ge">>}, "Gt")
               [] c[1] = "=" -> TwoCharToken(lexer, {<<"=", "EqEq">>}, "Eq")
               [] c[1] \in {"'", "\""} -> StringToken(lexer, c[1], "String")
               [] c[1] = "$" ->
                     LET ident == read_identifier(lexer, lexer.position)
                     IN  [lexer |-> ident.lexer, result |-> Done(TokText("Parameter", ident.text))]
               [] c[1] = Backtick -> StringToken(lexer, Backtick, "Ident")
               [] IsAlphabetic(c[1]) \/ c[1] = "_" ->
                     LET ident == read_identifier(lexer, from)
                     IN  [lexer |-> ident.lexer, result |-> Done(keyword_or_ident(ident.text))]
               [] IsAsciiDigit(c[1]) ->
                     LET number == read_number(lexer, from)
                     IN  [lexer |-> number.lexer, result |-> Done(number.token)]
               [] OTHER ->
                     [lexer |-> lexer, result |-> ParseError(from, "Unexpected character")]
        At(skipped) == Token(skipped, peek_char(skipped), skipped.idx, next_char(skipped))
    IN  At(skip_whitespace(self))

(***************************************************************************)
(* tokenize as a state machine: TokenIterator::next is called until it     *)
(* returns None, or MaxTokens tokens have been yielded.                    *)
(***************************************************************************)
MaxInput == 5
MaxTokens == 7
LexerChars == {"a", "/", "*", " ", "'", "#"}
LexerInputs == UNION {[1 .. n -> LexerChars] : n \in 0 .. MaxInput}

\* QueryParser::tokenize
tokenize(query) ==
    [pc |-> "tokens", lexer |-> LexerNew(query), done |-> FALSE,
     tokens |-> <<>>, failed |-> FALSE]

\* TokenIterator::next
TokenIteratorNext ==
    /\ lex.pc = "tokens"
    /\ ~lex.done
    /\ Len(lex.tokens) < MaxTokens
    /\ LET next == next_token(lex.lexer)
       IN  lex' = IF next.result.tag # "Ok"
                  THEN [lex EXCEPT !.lexer = next.lexer, !.done = TRUE, !.failed = TRUE]
                  ELSE [lex EXCEPT !.lexer = next.lexer,
                                   !.done = (next.result.value = Eof),
                                   !.tokens = Append(@, next.result.value)]
    /\ UNCHANGED <<ringVars, audioVars, duck, engine>>

LexerInit ==
    /\ RingIdle
    /\ AudioIdle
    /\ duck = [pc |-> "idle"]
    /\ engine = [pc |-> "idle"]
    /\ \E query \in LexerInputs : lex = tokenize(query)

LexerNext == TokenIteratorNext

SpecLexer == LexerInit /\ [][LexerNext]_vars

(***************************************************************************)
(* The parser (parser.rs) on texts made of LIMIT, SKIP and WHERE clauses,   *)
(* numbers, identifiers, strings, sums, differences and stray characters.  *)
(* The clauses that hold a pattern or a list of items are not modelled: no *)
(* text given to parse here contains their keywords, and parse_query       *)
(* answers "Unmodelled" to them.                                           *)
(***************************************************************************)
\* Parser::new: a first token the lexer fails on is replaced by Eof.
ParserNew(input) ==
    LET Primed(first) ==
            [lexer |-> first.lexer,
             current |-> IF first.result.tag = "Ok" THEN first.result.value ELSE Eof]
    IN  Primed(next_token(LexerNew(input)))

\* Parser::advance: the parser afterwards and Ok of the previous token, or
\* the error of the lexer.
advance(self) ==
    LET Advanced(next) ==
            IF next.result.tag = "Ok"
            THEN [parser |-> [lexer |-> next.lexer, current |-> next.result.value],
                  result |-> Done(self.current)]
            ELSE [parser |-> [self EXCEPT !.lexer = next.lexer], result |-> next.result]
    IN  Advanced(next_token(self.lexer))

\* Parser::expect
expect(self, expected) ==
    IF self.current.type = expected THEN advance(self)
    ELSE [parser |-> self, result |-> ParseError(self.lexer.position, "Expected token")]

\* `n as u64` at IntBits bits
AsU64(n) == n % Pow2(IntBits)

\* Parser::parse_limit and parse_skip: the keyword, then an Integer.
ParseCount(self, keyword) ==
    LET Counted(count, advanced) ==
            IF advanced.result.tag # "Ok" THEN advanced
            ELSE [parser |-> advanced.parser,
                  result |-> Done(IF keyword = "Limit"
                                  THEN LimitClause(AsU64(count.n))
                                  ELSE SkipClause(AsU64(count.n)))]
        Expected(expected) ==
            IF expected.result.tag # "Ok" THEN expected
            ELSE IF expected.parser.current.type # "Integer"
            THEN [parser |-> expected.parser,
                  result |-> ParseError(expected.parser.lexer.position, "Expected integer")]
            ELSE Counted(expected.parser.current, advance(expected.parser))
    IN  Expected(expect(self, keyword))

\* A parser after a parsing function and the function's result.
Step(parser, result) == [parser |-> parser, result |-> result]

\* The `?` operator: the failed step itself, or what follows it.
OnOk(step, then) == IF step.result.tag # "Ok" THEN step ELSE then

\* The levels of the expression grammar whose loop is
\* `while current is one of the level's operators { advance; right operand }`,
\* with the tokens and operators of each and the level of its operands.
LeftLevels == {"Or", "Xor", "And", "Additive", "Multiplicative"}
BinaryOps(level) ==
    CASE level = "Or" -> {<<"Or", "Or">>}
      [] level = "Xor" -> {<<"Xor", "Xor">>}
      [] level = "And" -> {<<"And", "And">>}
      [] level = "Additive" -> {<<"Plus", "Add">>, <<"Minus", "Sub">>}
      [] level = "Multiplicative" ->
            {<<"Star", "Mul">>, <<"Slash", "Div">>, <<"Percent", "Mod">>}
Operand(level) ==
    CASE level = "Or" -> "Xor"
      [] level = "Xor" -> "And"
      [] level = "And" -> "Not"
      [] level = "Additive" -> "Multiplicative"
      [] level = "Multiplicative" -> "Power"

\* The place in a level's loop, and the level of a place.
Loop(level) ==
    CASE level = "Or" -> "OrLoop"
      [] level = "Xor" -> "XorLoop"
      [] level = "And" -> "AndLoop"
      [] level = "Additive" -> "AdditiveLoop"
      [] level = "Multiplicative" -> "MultiplicativeLoop"
LoopLevels == {Loop(level) : level \in LeftLevels}
LevelOf(loop) == CHOOSE level \in LeftLevels : Loop(level) = loop

\* The operators of parse_comparison_expression by their tokens.
ComparisonOps ==
    {<<"Eq", "Eq">>, <<"EqEq", "Eq">>, <<"Ne", "Ne">>, <<"Lt", "Lt">>, <<"Le", "Le">>,
     <<"Gt", "Gt">>, <<"Ge", "Ge">>, <<"In", "In">>, <<"Contains", "Contains">>,
     <<"StartsWith", "StartsWith">>, <<"EndsWith", "EndsWith">>}

\* The operator a token stands for in a table of <<token, operator>> pairs.
HasOp(ops, token) == \E o \in ops : o[1] = token.type
OpOf(ops, token) == (CHOOSE o \in ops : o[1] = token.type)[2]

\* The places of `self.expect(token)?; Ok(held)` and their tokens.
ExpectLevels == {"ExpectNull", "ExpectRParen", "ExpectRBracket"}
ExpectedAt(level) ==
    CASE level = "ExpectNull" -> "Null"
      [] level = "ExpectRParen" -> "RParen"
      [] level = "ExpectRBracket" -> "RBracket"

\* The places in the arguments of a call and in the elements of a list:
\* the first element unless the closing token comes, an element, and the
\* expression after a comma; with the closing token of each.
FirstLevels == {"CallFirst", "ListFirst"}
ElementLevels == {"CallElement", "ListElement"}
CommaLevels == {"CallComma", "ListComma"}
ElementOf(level) == IF level \in {"CallFirst", "CallComma"} THEN "CallElement" ELSE "ListElement"
CommaOf(level) == IF level = "CallElement" THEN "CallComma" ELSE "ListComma"
ClosingOf(level) ==
    IF level \in {"CallFirst", "CallElement"} THEN "ExpectRParen" ELSE "ExpectRBracket"

\* The functions of the expression grammar from a place in them: `level`
\* names the function or the place, `held` is what the function has parsed
\* up to the place, and `advanced` is advance on self, looked at only at
\* the places where the function advances.
RECURSIVE ParseLevel(_, _, _)
RECURSIVE LevelWith(_, _, _, _)
LevelWith(self, level, held, advanced) ==
    CASE level \in LeftLevels ->
            \* parse_or_expression .. parse_multiplicative_expression
            LET Left(left) ==
                    OnOk(left, ParseLevel(left.parser, Loop(level), left.result.value))
            IN  Left(ParseLevel(self, Operand(level), held))
      [] level \in LoopLevels ->
            IF ~HasOp(BinaryOps(LevelOf(level)), self.current) THEN Step(self, Done(held))
            ELSE LET Right(right) ==
                         OnOk(right,
                              ParseLevel(right.parser, level,
                                         Binary(held,
                                                OpOf(BinaryOps(LevelOf(level)), self.current),
                                                right.result.value)))
                 IN  OnOk(advanced,
                          Right(ParseLevel(advanced.parser, Operand(LevelOf(level)), held)))
      [] level = "Not" ->
            \* parse_not_expression
            IF self.current.type = "Not"
            THEN LET Negated(expr) ==
                         OnOk(expr, Step(expr.parser, Done(Unary("Not", expr.result.value))))
                 IN  OnOk(advanced, Negated(ParseLevel(advanced.parser, "Not", held)))
            ELSE ParseLevel(self, "Comparison", held)
      [] level = "Comparison" ->
            \* parse_comparison_expression
            LET Left(left) ==
                    OnOk(left, ParseLevel(left.parser, "Compared", left.result.value))
            IN  Left(ParseLevel(self, "Additive", held))
      [] level = "Compared" ->
            IF self.current.type = "Is" THEN
               OnOk(advanced,
                    IF advanced.parser.current.type = "Not"
                    THEN ParseLevel(advanced.parser, "IsNot", held)
                    ELSE ParseLevel(advanced.parser, "ExpectNull",
                                    Binary(held, "IsNull", Literal(LitNull))))
            ELSE IF HasOp(ComparisonOps, self.current) THEN
               LET Right(right) ==
                       OnOk(right,
                            Step(right.parser,
                                 Done(Binary(held, OpOf(ComparisonOps, self.current),
                                             right.result.value))))
               IN  OnOk(advanced, Right(ParseLevel(advanced.parser, "Additive", held)))
            ELSE Step(self, Done(held))
      [] level = "IsNot" ->
            OnOk(advanced,
                 ParseLevel(advanced.parser, "ExpectNull",
                            Binary(held, "IsNotNull", Literal(LitNull))))
      [] level \in ExpectLevels ->
            IF self.current.type = ExpectedAt(level)
            THEN OnOk(advanced, Step(advanced.parser, Done(held)))
            ELSE Step(self, ParseError(self.lexer.position, "Expected token"))
      [] level = "Power" ->
            \* parse_power_expression
            LET Left(left) ==
                    OnOk(left, ParseLevel(left.parser, "Raised", left.result.value))
            IN  Left(ParseLevel(self, "Unary", held))
      [] level = "Raised" ->
            IF self.current.type = "Caret"
            THEN LET Right(right) ==
                         OnOk(right,
                              Step(right.parser,
                                   Done(Binary(held, "Pow", right.result.value))))
                 IN  OnOk(advanced, Right(ParseLevel(advanced.parser, "Power", held)))
            ELSE Step(self, Done(held))
      [] level = "Unary" ->
            \* parse_unary_expression
            IF self.current.type \in {"Minus", "Plus"}
            THEN LET Signed(expr) ==
                         OnOk(expr,
                              Step(expr.parser,
                                   Done(Unary(IF self.current.type = "Minus"
                                              THEN "Neg" ELSE "Pos",
                                              expr.result.value))))
                 IN  OnOk(advanced, Signed(ParseLevel(advanced.parser, "Unary", held)))
            ELSE ParseLevel(self, "Postfix", held)
      [] level = "Postfix" ->
            \* parse_postfix_expression
            LET Primary(expr) ==
                    OnOk(expr, ParseLevel(expr.parser, "PostfixLoop", expr.result.value))
            IN  Primary(ParseLevel(self, "Primary", held))
      [] level = "PostfixLoop" ->
            CASE self.current.type = "Dot" ->
                    OnOk(advanced,
                         IF advanced.parser.current.type = "Ident"
                         THEN ParseLevel(advanced.parser, "PropertyName", held)
                         ELSE Step(advanced.parser,
                                   ParseError(advanced.parser.lexer.position,
                                              "Expected property name after '.'")))
              [] self.current.type = "LBracket" ->
                    LET Closed(closed) ==
                            OnOk(closed,
                                 ParseLevel(closed.parser, "PostfixLoop",
                                            closed.result.value))
                        Indexed(index) ==
                            OnOk(index,
                                 Closed(ParseLevel(index.parser, "ExpectRBracket",
                                                   Index(held, index.result.value))))
                    IN  OnOk(advanced, Indexed(ParseLevel(advanced.parser, "Or", held)))
              [] OTHER -> Step(self, Done(held))
      [] level = "PropertyName" ->
            OnOk(advanced,
                 ParseLevel(advanced.parser, "PostfixLoop",
                            Property(held, self.current.text)))
      [] level = "Primary" ->
            \* parse_primary_expression
            CASE self.current.type = "Null" ->
                    OnOk(advanced, Step(advanced.parser, Done(Literal(LitNull))))
              [] self.current.type = "True" ->
                    OnOk(advanced, Step(advanced.parser, Done(True)))
              [] self.current.type = "False" ->
                    OnOk(advanced, Step(advanced.parser, Done(False)))
              [] self.current.type = "Integer" ->
                    OnOk(advanced, Step(advanced.parser, Done(IntLit(self.current.n))))
              [] self.current.type = "String" ->
                    OnOk(advanced,
                         Step(advanced.parser, Done(Literal(LitStr(self.current.text)))))
              [] self.current.type = "Parameter" ->
                    OnOk(advanced, Step(advanced.parser, Done(Parameter(self.current.text))))
              [] self.current.type = "Ident" ->
                    LET Applied(args) ==
                            OnOk(args,
                                 Step(args.parser,
                                      Done(FunctionCall(self.current.text,
                                                        args.result.value))))
                    IN  OnOk(advanced,
                             IF advanced.parser.current.type = "LParen"
                             THEN Applied(ParseLevel(advanced.parser, "CallOpen", <<>>))
                             ELSE Step(advanced.parser, Done(Variable(self.current.text))))
              [] self.current.type = "LParen" ->
                    LET Inner(expr) ==
                            OnOk(expr,
                                 ParseLevel(expr.parser, "ExpectRParen", expr.result.value))
                    IN  OnOk(advanced, Inner(ParseLevel(advanced.parser, "Or", held)))
              [] self.current.type = "LBracket" ->
                    LET Listed(elements) ==
                            OnOk(elements,
                                 Step(elements.parser, Done(List(elements.result.value))))
                    IN  OnOk(advanced, Listed(ParseLevel(advanced.parser, "ListFirst", <<>>)))
              [] self.current.type \in {"Float", "LBrace", "Count", "Exists"} ->
                    Step(self, [tag |-> "Unmodelled"])
              [] OTHER ->
                    Step(self, ParseError(self.lexer.position,
                                          "Unexpected token in expression"))
      [] level = "CallOpen" ->
            OnOk(advanced, ParseLevel(advanced.parser, "CallFirst", held))
      [] level \in FirstLevels ->
            IF self.current.type = ExpectedAt(ClosingOf(level))
            THEN ParseLevel(self, ClosingOf(level), held)
            ELSE ParseLevel(self, ElementOf(level), held)
      [] level \in ElementLevels ->
            LET Element(element) ==
                    OnOk(element,
                         IF element.parser.current.type = "Comma"
                         THEN ParseLevel(element.parser, CommaOf(level),
                                         Append(held, element.result.value))
                         ELSE ParseLevel(element.parser, ClosingOf(level),
                                         Append(held, element.result.value)))
            IN  Element(ParseLevel(self, "Or", held))
      [] level \in CommaLevels ->
            OnOk(advanced, ParseLevel(advanced.parser, ElementOf(level), held))

ParseLevel(self, level, held) == LevelWith(self, level, held, advance(self))

\* Parser::parse_expression
parse_expression(self) == ParseLevel(self, "Or", <<>>)

\* Parser::parse_where
parse_where(self) ==
    LET Predicate(predicate) ==
            OnOk(predicate,
                 Step(predicate.parser, Done(WhereClause(predicate.result.value))))
        Expected(expected) == OnOk(expected, Predicate(parse_expression(expected.parser)))
    IN  Expected(expect(self, "Where"))

\* The loop of Parser::parse_query with the clauses parsed so far.
RECURSIVE ParseClauses(_, _)
ParseClauses(self, clauses) ==
    CASE self.current.type \in {"Limit", "Skip"} ->
            LET Parsed(clause) ==
                    IF clause.result.tag # "Ok" THEN clause.result
                    ELSE ParseClauses(clause.parser, Append(clauses, clause.result.value))
            IN  Parsed(ParseCount(self, self.current.type))
      [] self.current.type = "Where" ->
            LET Parsed(clause) ==
                    IF clause.result.tag # "Ok" THEN clause.result
                    ELSE ParseClauses(clause.parser, Append(clauses, clause.result.value))
            IN  Parsed(parse_where(self))
      [] self.current.type \in {"Match", "OptionalMatch", "Return", "OrderBy",
                                "Create", "With"} -> [tag |-> "Unmodelled"]
      [] self.current.type = "Eof" -> Done(Query(clauses))
      [] OTHER -> ParseError(self.lexer.position, "Unexpected token")

\* Parser::parse_query
parse_query(self) == ParseClauses(self, <<>>)

\* QueryParser::parse
parse(query) == parse_query(ParserNew(query))

MaxWords == 3
Words ==
    {<<"L", "I", "M", "I", "T">>, <<"s", "k", "i", "p">>, <<"1">>, <<"2", "0">>,
     <<"#">>, <<"'", "a">>, <<"'", "a", "'">>, <<"a">>, <<"/">>,
     <<"W", "H", "E", "R", "E">>, <<"a", " ", "-", " ", "b", " ", "-", " ", "c">>,
     <<"-", "x">>, <<"a", " ", "+", " ", "b", " ", "+", " ", "c">>}

\* The words of a text, separated by blanks.
RECURSIVE JoinWords(_)
JoinWords(words) ==
    IF words = <<>> THEN <<>>
    ELSE IF Len(words) = 1 THEN words[1]
    ELSE words[1] \o <<" ">> \o JoinWords(Tail(words))

ParserTexts == {JoinWords(words) : words \in UNION {[1 .. n -> Words] : n \in 0 .. MaxWords}}

\* QueryParser::parse on a text
Parse ==
    /\ lex.pc = "text"
    /\ lex' = [pc |-> "parsed", input |-> lex.input, result |-> parse(lex.input)]
    /\ UNCHANGED <<ringVars, audioVars, duck, engine>>

ParserInit ==
    /\ RingIdle
    /\ AudioIdle
    /\ duck = [pc |-> "idle"]
    /\ engine = [pc |-> "idle"]
    /\ \E query \in ParserTexts : lex = [pc |-> "text", input |-> query]

ParserNext == Parse

SpecParser == ParserInit /\ [][ParserNext]_vars

(***************************************************************************)
(* C1: the samples returned by read are at every moment a prefix of the    *)
(* samples accepted by write, in the same order (nothing lost, duplicated, *)
(* overwritten before it is read, or read before it is written); when the  *)
(* ring is empty and no call is in progress the two sequences are equal.   *)
(***************************************************************************)
IsPrefix(s, t) == Len(s) <= Len(t) /\ SubSeq(t, 1, Len(s)) = s

C1_FifoOrder ==
    /\ IsPrefix(returned, accepted)
    /\ (prod.pc = "idle" /\ cons.pc = "idle" /\ available_read(rb) = 0)
          => returned = accepted

\* Reads have returned more samples than usize has values, so both the cell
\* index and the positions themselves have wrapped around.
C1_Witness ==
    /\ Len(returned) > usize
    /\ rb.capacity > 1
    /\ returned = accepted

(***************************************************************************)
(* C2: 0 <= write_pos - read_pos <= capacity in wrapping order, hence      *)
(* available_read + available_write <= capacity and no underflow in        *)
(* available_write, with clear() free to run at any point.                 *)
(***************************************************************************)
C2_PositionsOrdered ==
    /\ wrapping_sub(rb.write_pos, rb.read_pos) <= rb.capacity
    /\ available_read(rb) + available_write(rb) <= rb.capacity

(***************************************************************************)
(* Vocabulary of the backend claims.  A step of the backend specification  *)
(* is one call: last' names it, backend is the driver before the call and  *)
(* backend' the driver after it.                                           *)
(***************************************************************************)
Live(b) == DOMAIN b.streams

\* The step is the call op on handle h, and h is a stream of the driver.
CallOn(op, h) ==
    /\ last'.op = op
    /\ last'.handle = h
    /\ h \in Live(backend)

(***************************************************************************)
(* C3: pause succeeds only from Running (new state Paused) and resume only *)
(* from Paused (new state Running); in every other state the call returns  *)
(* InvalidState{expected, actual} with expected Running for pause, Paused  *)
(* for resume, and actual the current state, and leaves the stream (state, *)
(* buffer, volume, health counters) unchanged.                             *)
(***************************************************************************)
C3_Transition(op, from, to) ==
    \A h \in Handles :
       CallOn(op, h) =>
          IF backend.streams[h].state = from
          THEN /\ last'.result.tag = "Ok"
               /\ backend'.streams[h].state = to
          ELSE /\ last'.result = InvalidState(from, backend.streams[h].state)
               /\ backend'.streams[h] = backend.streams[h]

C3_PauseResume ==
    [][/\ C3_Transition("pause", "Running", "Paused")
       /\ C3_Transition("resume", "Paused", "Running")]_vars

\* pause on an Idle stream has returned InvalidState{Running, Idle}.
C3_Witness ==
    /\ last.op = "pause"
    /\ last.result = InvalidState("Running", "Idle")
    /\ last.handle \in Live(backend)
    /\ backend.streams[last.handle].state = "Idle"

(***************************************************************************)
(* C4: start from Idle or Paused sets the state to Running when            *)
(* available_read >= prebuffer_samples at the call and to Prebuffering     *)
(* otherwise; start in any other state returns InvalidState carrying the   *)
(* actual state and changes nothing.                                       *)
(***************************************************************************)
C4_Start ==
    [][\A h \in Handles :
          CallOn("start", h) =>
             LET s == backend.streams[h]
             IN  IF s.state \in {"Idle", "Paused"}
                 THEN /\ last'.result.tag = "Ok"
                      /\ backend'.streams[h].state =
                            IF s.buffer.write_pos - s.buffer.read_pos
                                  >= prebuffer_samples(s.config)
                            THEN "Running" ELSE "Prebuffering"
                 ELSE /\ last'.result.tag = "InvalidState"
                      /\ last'.result.actual = s.state
                      /\ backend'.streams[h] = s]_vars

\* start on a fresh Playback stream with a non-zero prebuffer gave Prebuffering.
C4_Witness ==
    /\ last.op = "start"
    /\ last.result.tag = "Ok"
    /\ last.handle \in Live(backend)
    /\ backend.streams[last.handle].state = "Prebuffering"
    /\ backend.streams[last.handle].config.direction = "Playback"
    /\ prebuffer_samples(backend.streams[last.handle].config) > 0

(***************************************************************************)
(* C5: a successful write on a Prebuffering stream that brings             *)
(* available_read to at least prebuffer_samples moves the stream to        *)
(* Running, as reported by get_state (so that a following pause succeeds), *)
(* in the mock and in the PipeWire driver.                                 *)
(***************************************************************************)
C5_PrebufferingToRunning ==
    [][\A h \in Handles :
          (/\ CallOn("write", h)
           /\ last'.result.tag = "Ok"
           /\ backend.streams[h].state = "Prebuffering"
           /\ available_read(backend'.streams[h].buffer)
                 >= prebuffer_samples(backend.streams[h].config))
          => get_state(backend'.streams[h]).result = Ok("Running")]_vars

(***************************************************************************)
(* C6: every successful create_stream on one AudioManager returns an id    *)
(* strictly greater than every id returned before, across initialize,      *)
(* create_stream, destroy_stream and shutdown.                             *)
(***************************************************************************)
C6_FreshHandles ==
    \A i, j \in DOMAIN issued : i < j => issued[i] < issued[j]

(***************************************************************************)
(* C7: write on a Playback stream returns Ok(min(len, available_write      *)
(* before the call)) and overrun_count grows by exactly 1 iff that is less *)
(* than len; read on a Recording stream returns Ok(min(len,                *)
(* available_read)) and underrun_count grows by exactly 1 iff that is less *)
(* than len; no other call changes either counter.                         *)
(***************************************************************************)
C7_Counters(s, t, overruns, underruns) ==
    /\ t.health.overrun_count = s.health.overrun_count + overruns
    /\ t.health.underrun_count = s.health.underrun_count + underruns

C7_WriteStep(h) ==
    LET s == backend.streams[h]
        free == s.buffer.capacity - (s.buffer.write_pos - s.buffer.read_pos)
        count == IF last'.arg <= free THEN last'.arg ELSE free
    IN  /\ last'.result = Ok(count)
        /\ C7_Counters(s, backend'.streams[h], IF count < last'.arg THEN 1 ELSE 0, 0)

C7_ReadStep(h) ==
    LET s == backend.streams[h]
        held == s.buffer.write_pos - s.buffer.read_pos
        count == IF last'.arg <= held THEN last'.arg ELSE held
    IN  /\ last'.result = Ok(count)
        /\ C7_Counters(s, backend'.streams[h], 0, IF count < last'.arg THEN 1 ELSE 0)

C7_Telemetry ==
    [][\A h \in Live(backend) \cap Live(backend') :
          IF CallOn("write", h) /\ backend.streams[h].config.direction = "Playback"
          THEN C7_WriteStep(h)
          ELSE IF CallOn("read", h) /\ backend.streams[h].config.direction = "Recording"
          THEN C7_ReadStep(h)
          ELSE C7_Counters(backend.streams[h], backend'.streams[h], 0, 0)]_vars

\* write on a full buffer has returned 0 and recorded an overrun.
C7_Witness ==
    /\ last.op = "write"
    /\ last.arg > 0
    /\ last.result = Ok(0)
    /\ last.handle \in Live(backend)
    /\ backend.streams[last.handle].health.overrun_count >= 1
    /\ available_write(backend.streams[last.handle].buffer) = 0

(***************************************************************************)
(* C8: once destroy_stream(h) has succeeded, or shutdown has dropped h,    *)
(* every later call on h returns StreamNotFound; destroy_stream(h) leaves  *)
(* every other stream as it was.                                           *)
(***************************************************************************)
StreamCalls ==
    {"get_state", "start", "stop", "pause", "resume", "write", "read",
     "set_volume", "get_volume", "get_health", "drain", "destroy_stream"}

C8_Gone ==
    (last'.op \in StreamCalls /\ last'.handle \in dropped)
       => /\ last'.result = Err("StreamNotFound")
          /\ backend'.streams = backend.streams
          /\ last'.handle \notin Live(backend)

C8_OthersKept ==
    \A h \in Handles :
       (CallOn("destroy_stream", h) /\ last'.result.tag = "Ok")
          => /\ Live(backend') = Live(backend) \ {h}
             /\ \A g \in Live(backend') : backend'.streams[g] = backend.streams[g]

C8_Destroyed == [][C8_Gone /\ C8_OthersKept]_vars

\* A call on a destroyed handle has failed while another stream is alive.
C8_Witness ==
    /\ last.op \in StreamCalls \ {"destroy_stream"}
    /\ last.handle \in dropped
    /\ last.result = Err("StreamNotFound")
    /\ Live(backend) # {}

(***************************************************************************)
(* C9: create_stream fails with NotAvailable whenever the backend is not   *)
(* initialized, and with InvalidConfig when sample_rate is outside         *)
(* [8000, 192000] or channels outside [1, 8]; a failing create_stream      *)
(* leaves the driver (streams and handle counter) as it was.               *)
(***************************************************************************)
C9_OutOfRange(config) ==
    \/ config.sample_rate < 8000
    \/ config.sample_rate > 192000
    \/ config.channels < 1
    \/ config.channels > 8

C9_CreateFails ==
    [][last'.op = "create_stream" =>
          /\ ~backend.initialized => last'.result = Err("NotAvailable")
          /\ (backend.initialized /\ C9_OutOfRange(last'.arg))
                => last'.result = Err("InvalidConfig")
          /\ last'.result.tag # "Ok" => backend' = backend]_vars

\* create_stream has failed with NotAvailable after a shutdown that followed
\* a successful create_stream.
C9_Witness ==
    /\ last.op = "create_stream"
    /\ last.result = Err("NotAvailable")
    /\ dropped # {}
    /\ backend.next_handle > 1

(***************************************************************************)
(* C10: the stored volume of every stream lies in [0.0, 1.0].              *)
(***************************************************************************)
InUnitRange(x) == ~x.nan /\ 0 <= x.milli /\ x.milli <= 1000

C10_VolumeInRange ==
    \A h \in Live(backend) : InUnitRange(backend.streams[h].volume)

(***************************************************************************)
(* C19: in every reachable state of a stream, of the mock and of the       *)
(* PipeWire driver, the lifecycle state inside the health snapshot         *)
(* (get_health(handle).state) equals the state get_state(handle) returns.  *)
(***************************************************************************)
C19_HealthStateAgrees ==
    \A h \in Live(backend) :
       get_health(backend.streams[h]).result.value.state
          = get_state(backend.streams[h]).result.value

(***************************************************************************)
(* C20: whenever drain(handle) returns Ok the stream's buffer is empty and *)
(* get_state reports Draining; a drain that gives up returns Internal and  *)
(* leaves the stream's state as it was.                                    *)
(***************************************************************************)
C20_Drain ==
    [][\A h \in Handles :
          CallOn("drain", h) =>
             IF last'.result.tag = "Ok"
             THEN /\ available_read(backend'.streams[h].buffer) = 0
                  /\ get_state(backend'.streams[h]).result = Ok("Draining")
             ELSE /\ last'.result = Err("Internal")
                  /\ backend'.streams[h].state = backend.streams[h].state]_vars

(***************************************************************************)
(* C18: for a non-empty stream list, ProportionalDucker(min_volume) gives  *)
(* volume 1.0 to every stream with the highest priority present and        *)
(* min_volume to every stream with the lowest priority present; every      *)
(* other volume lies between the two and is non-decreasing in priority.    *)
(***************************************************************************)
C18_Proportional ==
    (duck.pc = "done" /\ duck.streams # <<>>) =>
       LET streams == duck.streams
           lowest == duck.ducker.min_volume.milli
       IN  \A i \in DOMAIN streams :
              /\ streams[i] = SetMax(PrioritiesOf(streams))
                    => duck.volumes[i] = F32(1000)
              /\ streams[i] = SetMin(PrioritiesOf(streams))
                    => duck.volumes[i] = F32(lowest)
              /\ lowest <= duck.volumes[i].milli /\ duck.volumes[i].milli <= 1000
              /\ \A j \in DOMAIN streams :
                    streams[i] <= streams[j]
                       => duck.volumes[i].milli <= duck.volumes[j].milli

\* The nodes of a plan: the node itself and those of its inputs.
RECURSIVE PlanNodes(_)
PlanNodes(node) ==
    {node} \cup
    (CASE node.type \in {"Expand", "Filter", "Project", "Sort", "Limit", "Skip",
                         "Distinct", "Create"} -> PlanNodes(node.input)
       [] node.type = "HashJoin" -> PlanNodes(node.left) \cup PlanNodes(node.right)
       [] node.type \in {"NestedLoopJoin", "Apply"} ->
             PlanNodes(node.outer) \cup PlanNodes(node.inner)
       [] OTHER -> {})

\* C17: after QueryOptimizer::new().optimize no Filter is left whose
\* predicate constant-folds to the literal true or to the literal false (the
\* first has become its input, the second EmptyResult), and folding maps
\* 2 + 3 to 5, x AND true to the folded x and NOT NOT x to the folded x.
C17_Folded ==
    /\ engine.pc = "optimized" =>
          \A node \in PlanNodes(engine.plan.root) :
             node.type = "Filter" => ~IsBool(fold_expr(node.predicate))
    /\ fold_expr(Binary(IntLit(2), "Add", IntLit(3))) = IntLit(5)
    /\ \A x \in Predicates :
          /\ fold_expr(Binary(x, "And", True)) = fold_expr(x)
          /\ fold_expr(Unary("Not", Unary("Not", x))) = fold_expr(x)

\* An input of a HashJoin as the optimizer rewrites it: only constant
\* folding and join reordering descend into a HashJoin.
JoinInput(node) == reorder_joins(fold_constants(node))

\* C15 as stated: a HashJoin(L, R, on) comes back with its (optimized) inputs
\* and its keys swapped when estimate_rows(L) < estimate_rows(R), and
\* unswapped otherwise.
C15_SwapByInputRows ==
    (engine.pc = "optimized" /\ engine.input.root.type = "HashJoin") =>
       LET join == engine.input.root
       IN  engine.plan.root =
              IF estimate_rows(join.left) < estimate_rows(join.right)
              THEN HashJoin(JoinInput(join.right), JoinInput(join.left), SwapOn(join.on))
              ELSE HashJoin(JoinInput(join.left), JoinInput(join.right), join.on)

\* C15: a HashJoin(L, R, on) comes back as HashJoin(R', L', on') with the
\* keys swapped pairwise when estimate_rows(L') < estimate_rows(R'), L' and
\* R' being the optimized inputs, and as HashJoin(L', R', on) otherwise.
C15_SwapByOptimizedRows ==
    (engine.pc = "optimized" /\ engine.input.root.type = "HashJoin") =>
       LET join == engine.input.root
           left == JoinInput(join.left)
           right == JoinInput(join.right)
       IN  engine.plan.root =
              IF estimate_rows(left) < estimate_rows(right)
              THEN HashJoin(right, left, SwapOn(join.on))
              ELSE HashJoin(left, right, join.on)

\* A join with keys whose optimized left input is the smaller one although
\* the left input as given was not, swapped by the optimizer.
C15_Witness ==
    /\ engine.pc = "optimized"
    /\ engine.input.root.type = "HashJoin"
    /\ engine.input.root.on # <<>>
    /\ estimate_rows(engine.input.root.left) >= estimate_rows(engine.input.root.right)
    /\ estimate_rows(JoinInput(engine.input.root.left))
          < estimate_rows(JoinInput(engine.input.root.right))
    /\ engine.plan.root.left = JoinInput(engine.input.root.right)
    /\ engine.plan.root.on = SwapOn(engine.input.root.on)

\* The variables an expression refers to.
RECURSIVE FreeVars(_)
FreeVars(expr) ==
    CASE expr.type = "Variable" -> {expr.name}
      [] expr.type \in {"Property", "Unary"} -> FreeVars(expr.expr)
      [] expr.type = "Index" -> FreeVars(expr.expr) \cup FreeVars(expr.index)
      [] expr.type = "Binary" -> FreeVars(expr.left) \cup FreeVars(expr.right)
      [] expr.type = "FunctionCall" -> UNION {FreeVars(expr.args[i]) : i \in DOMAIN expr.args}
      [] expr.type = "List" -> UNION {FreeVars(expr.items[i]) : i \in DOMAIN expr.items}
      [] OTHER -> {}

\* The AND-conjuncts of a predicate, left to right.
RECURSIVE Conjuncts(_)
Conjuncts(expr) ==
    IF expr.type = "Binary" /\ expr.op = "And"
    THEN Conjuncts(expr.left) \o Conjuncts(expr.right)
    ELSE <<expr>>

\* The conjuncts of the Filter that a node is, none when it is no Filter.
FilterConjuncts(node) ==
    IF node.type = "Filter" THEN Conjuncts(node.predicate) ELSE <<>>
Unfiltered(node) == IF node.type = "Filter" THEN node.input ELSE node

\* C16: optimizing Filter(Sort(X), p) yields Sort(Filter(X, p)), and
\* optimizing Filter(Expand from a (X), p) leaves exactly the conjuncts of p
\* that refer to no variable other than a, in their order, in a Filter on X
\* and exactly the others in a Filter above the Expand, with no Filter for an
\* empty side (p being a predicate that folding leaves as it is and no
\* constant).
C16_PushedDown ==
    (/\ engine.pc = "optimized"
     /\ engine.input.root.type = "Filter"
     /\ fold_expr(engine.input.root.predicate) = engine.input.root.predicate
     /\ ~IsBool(engine.input.root.predicate)) =>
       LET p == engine.input.root.predicate
           below == engine.input.root.input
           out == engine.plan.root
       IN  /\ below.type = "Sort" => out = Sort(Filter(below.input, p), below.items)
           /\ below.type = "Expand" =>
                 LET OnlySource(c) == FreeVars(c) \subseteq {below.from_variable}
                     Other(c) == ~OnlySource(c)
                     expand == Unfiltered(out)
                 IN  /\ expand.type = "Expand"
                     /\ WithInput(expand, below.input) = below
                     /\ Unfiltered(expand.input) = below.input
                     /\ FilterConjuncts(expand.input) = SelectSeq(Conjuncts(p), OnlySource)
                     /\ FilterConjuncts(out) = SelectSeq(Conjuncts(p), Other)

\* C13: the plan QueryEngine::new().compile returns for a text has the root
\* that QueryOptimizer::new().optimize gives the plan of the parsed text.
C13_CompileOptimizes ==
    engine.pc = "compiled" =>
       engine.plan.root = optimize(QueryOptimizerNew, plan(engine.query).value).root

\* The node patterns of the MATCH clauses of a query.
NodePatterns(query) ==
    UNION {UNION {{path.elements[k] : k \in {j \in DOMAIN path.elements :
                                                path.elements[j].kind = "Node"}} :
                     path \in {query.clauses[c].pattern.paths[p] :
                                  p \in DOMAIN query.clauses[c].pattern.paths}} :
              c \in {d \in DOMAIN query.clauses : query.clauses[d].type = "Match"}}

\* C14: planning records the requirement (first label, first property,
\* BTree) for every node pattern with a label and a property, the first of a
\* path or a later one, and nothing else.
C14_IndexPerNode ==
    engine.pc = "planned" =>
       {engine.plan.required_indexes[i] : i \in DOMAIN engine.plan.required_indexes}
          = {IndexRequirement(node.labels[1], node.properties[1][1], "BTree") :
                node \in {n \in NodePatterns(engine.query) :
                             n.labels # <<>> /\ n.properties # <<>>}}

\* C11: on a text on which the lexer reports no error, tokenize yields at
\* most one token per character before the EOF token, which comes once and
\* last.
C11_OneTokenPerChar ==
    (lex.pc = "tokens" /\ ~lex.failed) =>
       /\ Cardinality({i \in DOMAIN lex.tokens : lex.tokens[i] # Eof}) <= Len(lex.lexer.input)
       /\ \A i \in DOMAIN lex.tokens : lex.tokens[i] = Eof => i = Len(lex.tokens) /\ lex.done

\* Whether the lexer fails on one of the first `tokens` tokens it yields.
RECURSIVE LexerFails(_, _)
LexerFails(lexer, tokens) ==
    LET next == next_token(lexer)
    IN  IF next.result.tag # "Ok" THEN TRUE
        ELSE IF next.result.value = Eof \/ tokens = 0 THEN FALSE
        ELSE LexerFails(next.lexer, tokens - 1)

\* C12: parse returns a ParseError, never Ok, for a text on one of whose
\* tokens the lexer fails, the first token included.
C12_LexerErrorsReported ==
    (lex.pc = "parsed" /\ LexerFails(LexerNew(lex.input), Len(lex.input))) =>
       lex.result.tag = "ParseError"

(***************************************************************************)
(* C21: stop on a stream succeeds from every lifecycle state, sets the     *)
(* state to Stopped and leaves available_read = 0.  Stopped is absorbing:  *)
(* start, pause and resume on a Stopped stream fail with InvalidState, and *)
(* as long as the stream exists get_state keeps returning Stopped,         *)
(* whatever is called.                                                     *)
(***************************************************************************)
C21_StopSucceeds(h) ==
    CallOn("stop", h) =>
       /\ last'.result.tag = "Ok"
       /\ get_state(backend'.streams[h]).result = Ok("Stopped")
       /\ available_read(backend'.streams[h].buffer) = 0

C21_Absorbing(h) ==
    (h \in Live(backend) /\ backend.streams[h].state = "Stopped") =>
       /\ (last'.op \in {"start", "pause", "resume"} /\ last'.handle = h)
             => /\ last'.result.tag = "InvalidState"
                /\ last'.result.actual = "Stopped"
       /\ h \in Live(backend') => get_state(backend'.streams[h]).result = Ok("Stopped")

C21_Stopped == [][\A h \in Handles : C21_StopSucceeds(h) /\ C21_Absorbing(h)]_vars

\* start has failed on a stream that was stopped after a write had filled
\* its buffer: the state is Stopped and the buffer is empty.
C21_Witness ==
    /\ last.op = "start"
    /\ last.result = InvalidState("Idle", "Stopped")
    /\ last.handle \in Live(backend)
    /\ backend.streams[last.handle].state = "Stopped"
    /\ backend.streams[last.handle].health.fill_level > 0
    /\ available_read(backend.streams[last.handle].buffer) = 0

(***************************************************************************)
(* C22: whenever get_health is called on a stream, the fill_level it       *)
(* reports is the buffer's available_read / capacity at that moment, in    *)
(* thousandths - 0 right after stop or a mock drain has emptied the        *)
(* buffer.                                                                 *)
(***************************************************************************)
C22_FillLevelCurrent ==
    [][\A h \in Handles :
          CallOn("get_health", h) =>
             LET b == backend.streams[h].buffer
             IN  last'.result.value.fill_level
                    = ((b.write_pos - b.read_pos) * 1000) \div b.capacity]_vars

(***************************************************************************)
(* C23: every Ident, String and Parameter token carries exactly the        *)
(* characters of its lexeme: for a token whose lexeme begins at offset s   *)
(* (after the blanks and comments skipped before it) and ends at offset e  *)
(* of the input, the text is input[s..e] for an identifier, without the    *)
(* leading $ for a parameter and without the quotes for a string,          *)
(* whatever tokens precede it.                                             *)
(***************************************************************************)
Offset(lexer) == lexer.base + lexer.idx

Lexeme(input, s, e) ==
    IF input[s + 1] \in {"'", "\"", Backtick} THEN Slice(input, s + 1, e - 1)
    ELSE IF input[s + 1] = "$" THEN Slice(input, s + 1, e)
    ELSE Slice(input, s, e)

C23_LexemeText ==
    [][(lex.pc = "tokens" /\ Len(lex'.tokens) = Len(lex.tokens) + 1) =>
          LET token == lex'.tokens[Len(lex'.tokens)]
          IN  token.type \in {"Ident", "String", "Parameter"} =>
                 token.text = Lexeme(lex.lexer.input,
                                     Offset(skip_whitespace(lex.lexer)),
                                     Offset(lex'.lexer))]_vars

\* The variable produced at the top of a plan: the to_variable of the nearest
\* Expand, or the variable of the scan when there is none.
RECURSIVE ProducedBelow(_)
ProducedBelow(node) ==
    CASE node.type = "Expand" -> node.to_variable
      [] node.type = "NodeScan" -> node.variable
      [] node.type \in {"Filter", "Project", "Sort", "Limit", "Skip", "Distinct"} ->
            ProducedBelow(node.input)
      [] node.type \in {"NestedLoopJoin", "Apply"} -> ProducedBelow(node.inner)
      [] OTHER -> "-"

\* The path of a query that begins with a MATCH of one path.
MatchedPath(query) == query.clauses[1].pattern.paths[1]

\* The positions (from 1) of the elements of a kind in a path.
ElementsOf(path, kind) == {j \in DOMAIN path.elements : path.elements[j].kind = kind}

\* C24: planning a path pattern with k edges succeeds and produces k nested
\* Expand nodes; the from_variable of each is the to_variable of the Expand
\* directly below it (the scan variable for the lowest), and the node written
\* without a variable at element i is named _n<i> - also for paths with an
\* anonymous intermediate node.
C24_ExpandChain ==
    engine.pc \in {"planned", "failed"} =>
       /\ engine.pc = "planned"
       /\ LET path == MatchedPath(engine.query)
              expands == {n \in PlanNodes(engine.plan.root) : n.type = "Expand"}
          IN  /\ Cardinality(expands) = Cardinality(ElementsOf(path, "Edge"))
              /\ \A x \in expands : x.from_variable = ProducedBelow(x.input)
              /\ {x.to_variable : x \in expands}
                    = {UnwrapOr(path.elements[j].variable, GeneratedNode(j - 1)) :
                          j \in ElementsOf(path, "Node") \ {1}}

\* The names an operator introduces, and those produced inside a plan.
Introduced(node) ==
    CASE node.type \in {"NodeScan", "EdgeScan", "IndexSeek"} -> {node.variable}
      [] node.type = "Expand" ->
            {node.to_variable} \cup {node.edge_variable[i] : i \in DOMAIN node.edge_variable}
      [] node.type = "Project" -> {node.items[i][2] : i \in DOMAIN node.items}
      [] OTHER -> {}
Produced(node) == UNION {Introduced(n) : n \in PlanNodes(node)}

\* Every variable a Filter's predicate refers to is produced inside the
\* Filter's input.
FiltersBound(root) ==
    \A node \in PlanNodes(root) :
       node.type = "Filter" => FreeVars(node.predicate) \subseteq Produced(node.input)

\* C25: predicate pushdown never moves a Filter below the Project that
\* introduces a name its predicate refers to: when in the plan handed to the
\* optimizer every Filter's variables are produced inside the Filter's input,
\* the same holds of the plan the optimizer returns.
C25_FiltersStayBound ==
    (engine.pc = "optimized" /\ FiltersBound(engine.input.root))
       => FiltersBound(engine.plan.root)

\* C26: the plan QueryOptimizer::new().optimize returns contains no Skip with
\* count 0, no Limit with count 0 and no Distinct whose direct input is a
\* Distinct, anywhere in the tree - also below an Expand, a join, an Apply or
\* a Distinct.
C26_NothingRedundant ==
    engine.pc = "optimized" =>
       \A node \in PlanNodes(engine.plan.root) :
          /\ ~(node.type \in {"Skip", "Limit"} /\ node.count = 0)
          /\ ~(node.type = "Distinct" /\ node.input.type = "Distinct")

\* C27: QueryOptimizer::new().optimize returns a fixpoint of its rewrite
\* pass: optimize_once applied to the root of the returned plan yields the
\* same tree, for every plan the planner produces.
C27_Fixpoint ==
    engine.pc = "optimized" => optimize_once(engine.plan.root) = engine.plan.root

(***************************************************************************)
(* C28: the expression grammar accepts binary and unary minus: the text    *)
(* `WHERE a - b - c` parses to the predicate Sub(Sub(a, b), c) and the text *)
(* `WHERE -x` to the predicate Unary(Neg, x), the token of the lexer for a  *)
(* '-' being the token parse_additive_expression and                       *)
(* parse_unary_expression consume.                                         *)
(***************************************************************************)
WhereText(expression) == <<"W", "H", "E", "R", "E", " ">> \o expression

C28_MinusParses ==
    lex.pc = "parsed" =>
       /\ lex.input = WhereText(<<"a", " ", "-", " ", "b", " ", "-", " ", "c">>)
             => lex.result =
                   Done(Query(<<WhereClause(
                       Binary(Binary(Variable(<<"a">>), "Sub", Variable(<<"b">>)),
                              "Sub", Variable(<<"c">>)))>>))
       /\ lex.input = WhereText(<<"-", "x">>)
             => lex.result = Done(Query(<<WhereClause(Unary("Neg", Variable(<<"x">>)))>>))

(***************************************************************************)
(* C29: folding a+b, a-b, a*b, a/b, a%b and -a on integer literals yields  *)
(* the mathematically exact result as an Integer literal, or leaves the    *)
(* expression as it is when the divisor is zero or the exact result is not *)
(* an i64; it never wraps and never aborts.                                *)
(***************************************************************************)
\* The exact value of an arithmetic expression on literals, the divisor
\* not being zero.
ExactValue(expr) ==
    IF expr.type = "Unary" THEN -expr.expr.lit.n
    ELSE CASE expr.op = "Add" -> expr.left.lit.n + expr.right.lit.n
           [] expr.op = "Sub" -> expr.left.lit.n - expr.right.lit.n
           [] expr.op = "Mul" -> expr.left.lit.n * expr.right.lit.n
           [] expr.op = "Div" -> TruncDiv(expr.left.lit.n, expr.right.lit.n)
           [] expr.op = "Mod" -> Rem(expr.left.lit.n, expr.right.lit.n)

DividesByZero(expr) ==
    expr.type = "Binary" /\ expr.op \in {"Div", "Mod"} /\ expr.right.lit.n = 0

\* The quotient i64::MIN / -1 is not an i64, and i64::MIN % -1 is computed
\* from it.
Representable(expr) ==
    /\ ExactValue(expr) \in I64Min .. I64Max
    /\ ~(expr.type = "Binary" /\ expr.op = "Mod"
         /\ expr.left.lit.n = I64Min /\ expr.right.lit.n = -1)

C29_FoldExact ==
    engine.pc = "folded" =>
       engine.result =
          IF DividesByZero(engine.expr) THEN Folded(engine.expr)
          ELSE IF Representable(engine.expr) THEN Folded(IntLit(ExactValue(engine.expr)))
          ELSE Folded(engine.expr)

\* The volumes of the FadeDucker are those of the SimpleDucker: 1.0 for the
\* streams with the highest priority and the duck level for the others;
\* and no fade progress is non-zero.
FadeIsSimple ==
    /\ duck.volumes = duck.simple_volumes
    /\ DOMAIN duck.volumes = DOMAIN duck.streams
    /\ \A h \in DOMAIN duck.streams :
          duck.volumes[h] = IF \A g \in DOMAIN duck.streams : duck.streams[g] <= duck.streams[h]
                            THEN F32(1000) ELSE duck.simple.duck_level
    /\ \A h \in DOMAIN duck.fade.fade_progress : duck.fade.fade_progress[h] = F32(0)

(***************************************************************************)
(* C30: after any number of update calls, a FadeDucker returns for a       *)
(* stream list exactly the volumes a SimpleDucker with the same duck level *)
(* returns for it: 1.0 for every stream with the highest priority, the     *)
(* duck level for the others and an empty map for an empty list, whatever  *)
(* the current_volume of the streams; no fade progress is ever non-zero.   *)
(***************************************************************************)
C30_FadeIsSimple == duck.pc = "done" => FadeIsSimple

\* The same for the stream lists whose current_volume values are numbers.
FadeIsSimpleOnNumbers ==
    (duck.pc = "done" /\ \A h \in DOMAIN duck.currents : ~duck.currents[h].nan)
       => FadeIsSimple

====
